---- MODULE Spec2Model ----
(***************************************************************************)
(* A model of lowkey, an LSB steganography tool: the framed and encrypted  *)
(* message pipeline (img/codec.rs), the bit codec (img/common.rs,          *)
(* img/pixel.rs), the capacity checks (img/common.rs), the AEAD wrapper    *)
(* (crypto.rs) and the PNG chunk preserver (img/io.rs).                    *)
(***************************************************************************)
EXTENDS Integers, Sequences, FiniteSets, TLC

VARIABLES
    pc,      \* position of the running operation
    files,   \* the file system: path -> file record, or NoFile
    args,    \* the arguments of the running operation
    enc,     \* locals of encode_from_files
    dec,     \* locals of decode_from_files
    call     \* the last call of a library function and its result

vars == <<pc, files, args, enc, dec, call>>

(***************************************************************************)
(* Bounds of the model.                                                    *)
(***************************************************************************)
\* longest payload (message file) in bytes
MaxPayloadLen == 1
\* most carriers in one encode
MaxCarriers == 2
\* longest bit slice handed to set_bits_image / read_bits on their own
MaxBits == 6
\* most chunks in a source PNG's chunk stream
MaxChunks == 2
\* most carriers in a capacity check on its own
MaxCapCarriers == 16
\* longest byte buffer given to convert_bytes_to_bits
MaxBytes == 2
\* longest message given to encode_bytes_v0
MaxV0Len == 2
\* largest width and height of an image given to resize_image
MaxDim == 7
\* largest message length given to resize_image
MaxMessageLen == 24
\* most carriers given to encode_from_multiple_files
MaxMultiCarriers == 2
\* longest message given to encode_from_file
MaxFileMessageLen == 3

(***************************************************************************)
(* Byte and word helpers.                                                  *)
(***************************************************************************)
Pow2(n) == 2 ^ n

Min(a, b) == IF a < b THEN a ELSE b

\* u32::to_be_bytes
to_be_bytes(n) ==
    << (n \div Pow2(24)) % 256, (n \div Pow2(16)) % 256, (n \div Pow2(8)) % 256, n % 256 >>

\* u32::from_be_bytes
from_be_bytes(b) == b[1] * Pow2(24) + b[2] * Pow2(16) + b[3] * Pow2(8) + b[4]

RECURSIVE SumSeq(_)
SumSeq(s) == IF s = <<>> THEN 0 ELSE s[1] + SumSeq(Tail(s))

RECURSIVE Concat(_)
Concat(ss) == IF ss = <<>> THEN <<>> ELSE ss[1] \o Concat(Tail(ss))

(***************************************************************************)
(* Bit codec (img/common.rs, img/pixel.rs).  A bit is 0 or 1; stream bit i *)
(* (0-based) is element i + 1 of the sequence.                             *)
(***************************************************************************)
\* the mutant of convert_bytes_to_bits: the most-significant bit comes first
convert_bytes_to_bits_msb(bytes) ==
    [ k \in 1..(8 * Len(bytes)) |->
        (bytes[((k - 1) \div 8) + 1] \div Pow2(7 - ((k - 1) % 8))) % 2 ]

\* convert_bytes_to_bits: (byte >> bit_pos) & 1 for bit_pos in 0..8, byte after byte
convert_bytes_to_bits(bytes) ==
    [ k \in 1..(8 * Len(bytes)) |->
        (bytes[((k - 1) \div 8) + 1] \div Pow2((k - 1) % 8)) % 2 ]

\* the fold of decode_from_files: acc | (bit << i) over the bits of one chunk
RECURSIVE FoldBits(_, _)
FoldBits(chunk, i) ==
    IF i > Len(chunk) THEN 0
    ELSE chunk[i] * Pow2(i - 1) + FoldBits(chunk, i + 1)

\* bits.chunks(8).map(fold).collect(): the last chunk may be shorter than 8
bits_to_bytes(bits) ==
    [ k \in 1..((Len(bits) + 7) \div 8) |->
        FoldBits(SubSeq(bits, 8 * (k - 1) + 1, Min(8 * k, Len(bits))), 1) ]

(***************************************************************************)
(* Capacity checks (img/common.rs).  A carrier holds one bit per channel,  *)
(* 4 bits per pixel.  Capacities are kept in pixels, so that the 32-bit    *)
(* wrap of check_capacity_images (at 2^32 bits, that is 2^30 pixels) stays *)
(* inside the integers of the model checker: width * height * 4 in u32 is  *)
(* 4 * ((width * height) mod 2^30).                                        *)
(***************************************************************************)
\* 2^32 bits in pixels: where `width * height * 4` and its sum wrap in u32
U32Pixels == 1073741824

\* bit_count > capacity_bit_count, with the capacity given in pixels
ExceedsPixels(bit_count, capacity_px) == (bit_count + 3) \div 4 > capacity_px

\* check_capacity: Err when bit_count > capacity_bit_count
check_capacity(capacity_px, bit_count) ==
    IF ExceedsPixels(bit_count, capacity_px) THEN "too_long" ELSE "ok"

\* check_capacity_image: width as usize * height as usize * 4, no wrap
check_capacity_image(w, h, bit_count) == check_capacity(w * h, bit_count)

RECURSIVE SumPixels(_)
SumPixels(dims) ==
    IF dims = <<>> THEN 0 ELSE dims[1].w * dims[1].h + SumPixels(Tail(dims))

\* check_capacity_images: the capacities are multiplied and summed in u32.  A
\* release build wraps; a debug build panics on the first overflow.
check_capacity_images(dims, bit_count, build) ==
    LET overflow == \/ \E i \in 1..Len(dims) : dims[i].w * dims[i].h >= U32Pixels
                    \/ SumPixels(dims) >= U32Pixels
    IN  IF overflow /\ build = "debug" THEN "panic"
        ELSE check_capacity(SumPixels(dims) % U32Pixels, bit_count)

\* the capacity check of encode_bytes_v0 (main.rs): total_capacity is
\* (width * height * 4) / 8 bytes in u32, an error when message_len + 4 exceeds it
encode_bytes_v0_check(w, h, message_len, build) ==
    IF w * h >= U32Pixels /\ build = "debug" THEN "panic"
    ELSE IF message_len + 4 > ((w * h) % U32Pixels) \div 2 THEN "too_long" ELSE "ok"

(***************************************************************************)
(* Pixel access (img/pixel.rs).  An image is [w, h, px]: px is the         *)
(* flattened channel buffer, row-major, R, G, B, A.                        *)
(***************************************************************************)
\* the mutant of set_bits_image: the channel is overwritten with the bit
set_bits_image_overwrite(img, bits) ==
    IF check_capacity_image(img.w, img.h, Len(bits)) # "ok"
    THEN [ok |-> FALSE, err |-> "too_long", img |-> img]
    ELSE [ok |-> TRUE, err |-> "none",
          img |-> [img EXCEPT !.px =
                     [ i \in 1..Len(img.px) |->
                         IF i <= Len(bits) THEN bits[i] ELSE img.px[i] ]]]

\* the mutant of set_bits_image: the bits that fit are written before the
\* capacity error is returned
set_bits_image_partial(img, bits) ==
    [ok |-> check_capacity_image(img.w, img.h, Len(bits)) = "ok",
     err |-> IF check_capacity_image(img.w, img.h, Len(bits)) = "ok" THEN "none" ELSE "too_long",
     img |-> [img EXCEPT !.px =
                [ i \in 1..Len(img.px) |->
                    IF i <= Len(bits)
                    THEN (img.px[i] - (img.px[i] % 2)) + bits[i]
                    ELSE img.px[i] ]]]

\* set_bits_image: check_capacity_image, then bit i into the LSB of channel i
set_bits_image(img, bits) ==
    IF check_capacity_image(img.w, img.h, Len(bits)) # "ok"
    THEN [ok |-> FALSE, err |-> "too_long", img |-> img]
    ELSE [ok |-> TRUE, err |-> "none",
          img |-> [img EXCEPT !.px =
                     [ i \in 1..Len(img.px) |->
                         IF i <= Len(bits)
                         THEN (img.px[i] - (img.px[i] % 2)) + bits[i]
                         ELSE img.px[i] ]]]

\* get_bits_reader_images: the channels of the images, one image after the other
get_bits_reader_images(imgs) == Concat([ i \in 1..Len(imgs) |-> imgs[i].px ])

\* the mutant of read_bits: a short read is returned instead of an error
read_bits_lenient(chan, pos, length) ==
    LET batch_len == Min(length, Len(chan) - pos)
    IN  [ok |-> TRUE,
         bits |-> [ i \in 1..batch_len |-> chan[pos + i] % 2 ],
         pos |-> pos + batch_len]

\* read_bits on the reader (chan, pos): take(length), fewer than length is an
\* error; pos counts the channels the iterator has yielded
read_bits(chan, pos, length) ==
    LET batch_len == Min(length, Len(chan) - pos)
    IN  IF batch_len < length
        THEN [ok |-> FALSE, bits |-> <<>>, pos |-> pos + batch_len]
        ELSE [ok |-> TRUE,
              bits |-> [ i \in 1..length |-> chan[pos + i] % 2 ],
              pos |-> pos + length]

(***************************************************************************)
(* Crypto layer (crypto.rs).  SHA-256 and ChaCha20-Poly1305 are library    *)
(* code; they are modelled as an idealised digest and an idealised AEAD:   *)
(* the ciphertext is the plaintext masked byte by byte with a keystream of *)
(* key and nonce, the 16-byte tag is a checksum over key, nonce and        *)
(* ciphertext, and opening recomputes the tag before it unmasks.           *)
(***************************************************************************)
NonceLen == 12
TagLen == 16
KeyLen == 32

\* a key built into the program
DefaultKey == <<112, 119>>

\* the mutant of get_key_bytes: the key argument is ignored, the built-in key is used
get_key_bytes_default(key) ==
    [ i \in 1..KeyLen |-> (SumSeq(DefaultKey) * i + 31 * i * i + Len(DefaultKey)) % 256 ]

\* get_key_bytes: the SHA-256 digest of the key string, 32 bytes
get_key_bytes(key) ==
    [ i \in 1..KeyLen |-> (SumSeq(key) * i + 31 * i * i + Len(key)) % 256 ]

KeyStream(kb, nonce, i) == (kb[((i - 1) % KeyLen) + 1] + nonce[((i - 1) % NonceLen) + 1] + i) % 256

Poly(kb, nonce, ct) ==
    [ j \in 1..TagLen |->
        ( kb[j] + 3 * kb[j + TagLen] + nonce[((j - 1) % NonceLen) + 1] + Len(ct)
          + SumSeq([ i \in 1..Len(ct) |-> ct[i] * (i + j) ]) ) % 256 ]

\* cipher.encrypt(&nonce, plaintext): ciphertext followed by the tag
AeadSeal(kb, nonce, plaintext) ==
    LET ct == [ i \in 1..Len(plaintext) |-> (plaintext[i] + KeyStream(kb, nonce, i)) % 256 ]
    IN  ct \o Poly(kb, nonce, ct)

\* cipher.decrypt(nonce, ciphertext): the tag is verified, then the plaintext returned
AeadOpen(kb, nonce, sealed) ==
    LET n  == Len(sealed) - TagLen
        ct == SubSeq(sealed, 1, n)
    IN  IF SubSeq(sealed, n + 1, Len(sealed)) # Poly(kb, nonce, ct)
        THEN [ok |-> FALSE, plaintext |-> <<>>]
        ELSE [ok |-> TRUE,
              plaintext |-> [ i \in 1..n |-> (ct[i] + 256 - KeyStream(kb, nonce, i)) % 256 ]]

\* encrypt: nonce (12 bytes) + ciphertext + tag (16 bytes); the nonce comes
\* from the OS random generator and is an input here
encrypt(plaintext, key, nonce) == nonce \o AeadSeal(get_key_bytes(key), nonce, plaintext)

\* the mutant of decrypt: data of 12 to 27 bytes reaches the cipher
decrypt_min_nonce(encrypted_data, key) ==
    IF Len(encrypted_data) < NonceLen
    THEN [ok |-> FALSE, err |-> "too_short", plaintext |-> <<>>, cipher |-> FALSE]
    ELSE IF Len(encrypted_data) < NonceLen + TagLen
    THEN [ok |-> FALSE, err |-> "decryption_failed", plaintext |-> <<>>, cipher |-> TRUE]
    ELSE LET opened == AeadOpen(get_key_bytes(key),
                                SubSeq(encrypted_data, 1, NonceLen),
                                SubSeq(encrypted_data, NonceLen + 1, Len(encrypted_data)))
         IN  IF opened.ok
             THEN [ok |-> TRUE, err |-> "none", plaintext |-> opened.plaintext, cipher |-> TRUE]
             ELSE [ok |-> FALSE, err |-> "decryption_failed", plaintext |-> <<>>, cipher |-> TRUE]

\* decrypt: too short is an error before the cipher is built; cipher tells
\* whether ChaCha20Poly1305 was invoked
decrypt(encrypted_data, key) ==
    IF Len(encrypted_data) < NonceLen + TagLen
    THEN [ok |-> FALSE, err |-> "too_short", plaintext |-> <<>>, cipher |-> FALSE]
    ELSE LET opened == AeadOpen(get_key_bytes(key),
                                SubSeq(encrypted_data, 1, NonceLen),
                                SubSeq(encrypted_data, NonceLen + 1, Len(encrypted_data)))
         IN  IF opened.ok
             THEN [ok |-> TRUE, err |-> "none", plaintext |-> opened.plaintext, cipher |-> TRUE]
             ELSE [ok |-> FALSE, err |-> "decryption_failed", plaintext |-> <<>>, cipher |-> TRUE]

(***************************************************************************)
(* Message framing (img/codec.rs).                                         *)
(***************************************************************************)
PROTOCOL_VERSION == 0
HeaderLen == 5

\* the mutant of get_message_header_bytes: the length is written little-endian
get_message_header_bytes_le(body_bytes) ==
    LET be == to_be_bytes(Len(body_bytes))
    IN  <<PROTOCOL_VERSION, be[4], be[3], be[2], be[1]>>

\* get_message_header_bytes: version, then the body length as u32 big-endian
get_message_header_bytes(body_bytes) == <<PROTOCOL_VERSION>> \o to_be_bytes(Len(body_bytes))

\* get_message_body_bytes
get_message_body_bytes(message_bytes, key, nonce) == encrypt(message_bytes, key, nonce)

\* get_message_bits: header and body, bytes to bits
get_message_bits(message_bytes, key, nonce) ==
    LET body_bytes == get_message_body_bytes(message_bytes, key, nonce)
    IN  convert_bytes_to_bits(get_message_header_bytes(body_bytes) \o body_bytes)

(***************************************************************************)
(* Files.  A path is [dir, stem, ext]; a carrier file is                   *)
(* [kind, w, h, px, chunks, seq]: its decoded RGBA channels, its ancillary *)
(* chunks and its sequence metadata (<<>> when it has none).               *)
(***************************************************************************)
NoFile == [kind |-> "none"]
NoCall == [op |-> "none"]

\* the carriers a run may start from: [w, h, mul, add], channel i is (mul * i + add) mod 256
CarrierKinds ==
    { [w |-> 5,  h |-> 5, mul |-> 37, add |-> 1],
      [w |-> 41, h |-> 1, mul |-> 2,  add |-> 0],
      [w |-> 10, h |-> 7, mul |-> 11, add |-> 128] }

PayloadBytes == {0, 255}
Keys == { <<112, 119>>, <<119, 114, 111, 110, 103>> }      \* "pw", "wrong"
Nonces == { [i \in 1..NonceLen |-> (17 * i) % 256] }

CarrierFile(k) ==
    [kind |-> "png", w |-> k.w, h |-> k.h,
     px |-> [ i \in 1..(k.w * k.h * 4) |-> (k.mul * i + k.add) % 256 ],
     chunks |-> << <<"gAMA", k.w>> >>, seq |-> <<>>]

SeqsUpTo(S, n) == UNION { [1..m -> S] : m \in 0..n }

InputPath(i) == [dir |-> "in", stem |-> i, ext |-> "png"]
OutputFile == [dir |-> "out", stem |-> 0, ext |-> "bin"]

\* to_lowercase().ends_with(".jpg") || ... ends_with(".jpeg")
IsJpegName(ext) == ext \in {"jpg", "jpeg", "JPG", "JPEG"}

\* check_image_png
check_image_png(path) == IF IsJpegName(path.ext) THEN "jpeg_not_supported" ELSE "ok"

\* read_image / image::open(..).to_rgba8()
read_image(fs, path) ==
    IF fs[path].kind \in {"png", "jpg"}
    THEN [ok |-> TRUE, img |-> [w |-> fs[path].w, h |-> fs[path].h, px |-> fs[path].px]]
    ELSE [ok |-> FALSE, img |-> <<>>]

\* the output path of a carrier in encode_from_files: output_dir joined with
\* the file name, a .jpg/.jpeg extension replaced by .png
OutputPath(output_dir, image_path) ==
    [dir |-> output_dir, stem |-> image_path.stem,
     ext |-> IF IsJpegName(image_path.ext) THEN "png" ELSE image_path.ext]

\* save_rgba_with_metadata as encode_from_files calls it: the pixels of img,
\* the ancillary chunks read from input_path when the file is written
SavedFile(fs, img, input_path) ==
    [kind |-> "png", w |-> img.w, h |-> img.h, px |-> img.px,
     chunks |-> IF fs[input_path].kind = "png" THEN fs[input_path].chunks ELSE <<>>,
     seq |-> <<>>]

\* the sequence metadata chunk (index, total) that the save of a carrier adds
write_sequence_info(file, sequence_info) == [file EXCEPT !.seq = sequence_info]

\* read_sequence_info(path).unwrap_or(None)
read_sequence_info(fs, path) == IF fs[path].kind = "png" THEN fs[path].seq ELSE <<>>

(***************************************************************************)
(* encode_from_files (img/codec.rs), one action per step of the function.  *)
(***************************************************************************)
AllPaths ==
    { InputPath(i) : i \in 1..MaxCarriers }
      \cup { OutputPath("out", InputPath(i)) : i \in 1..MaxCarriers }
      \cup { OutputFile }

EncIdle == [result |-> "none", bits |-> <<>>, cursor |-> 0, i |-> 0, images |-> <<>>,
            written |-> <<>>]
DecIdle == [result |-> "none", key |-> <<>>, image_paths |-> <<>>, sorted_paths |-> <<>>,
            chan |-> <<>>, pos |-> 0, message_count |-> 0, encrypted_bytes |-> <<>>,
            message_bytes |-> <<>>, cipher |-> FALSE, created_dir |-> FALSE]

\* what the path of the decoded file holds before the run: nothing, or a file
\* of an earlier run
OutputsBefore == { NoFile, [kind |-> "bin", data |-> <<9, 9>>] }

\* an encode and decode run starts with the carriers and the message file on
\* disk; at most one output path cannot be created (args.unwritable); the
\* path of the decoded file may hold a file already (args.output_before)
InitPipeline ==
    \E carriers \in SeqsUpTo(CarrierKinds, MaxCarriers) \ { <<>> },
       message \in SeqsUpTo(PayloadBytes, MaxPayloadLen),
       key \in Keys, nonce \in Nonces, output_before \in OutputsBefore :
      \E unwritable \in { {} } \cup { { OutputPath("out", InputPath(i)) } : i \in 1..Len(carriers) } :
        /\ pc = "start"
        /\ files = [ p \in AllPaths |->
                       IF \E i \in 1..Len(carriers) : p = InputPath(i)
                       THEN CarrierFile(carriers[p.stem])
                       ELSE IF p = OutputFile THEN output_before
                       ELSE NoFile ]
        /\ args = [message |-> message, key |-> key, nonce |-> nonce,
                   input_images |-> [ i \in 1..Len(carriers) |-> InputPath(i) ],
                   output_dir |-> "out", build |-> "release",
                   unwritable |-> unwritable, output_before |-> output_before]
        /\ enc = EncIdle
        /\ dec = DecIdle
        /\ call = NoCall

\* lines 57-85: the message and the carriers are read, the bit stream is built
\* and checked against the summed capacity
EncStart ==
    /\ pc = "start"
    /\ LET images == [ i \in 1..Len(args.input_images) |->
                         [path |-> args.input_images[i],
                          img  |-> read_image(files, args.input_images[i]).img] ]
           bits   == get_message_bits(args.message, args.key, args.nonce)
           check  == check_capacity_images([ i \in 1..Len(images) |-> images[i].img ],
                                           Len(bits), args.build)
       IN  IF args.input_images = <<>>
           THEN /\ enc' = [enc EXCEPT !.result = "no_input"]
                /\ pc' = "enc_done"
           ELSE IF check # "ok"
           THEN /\ enc' = [enc EXCEPT !.result = check, !.bits = bits, !.images = images]
                /\ pc' = "enc_done"
           ELSE /\ enc' = [enc EXCEPT !.bits = bits, !.images = images, !.cursor = 0, !.i = 1]
                /\ pc' = "enc_loop"
    /\ UNCHANGED <<files, args, dec, call>>

\* the mutant of carrier_bits: every carrier is given the front of the stream
carrier_bits_from_start(bits, cursor, next_cursor) == SubSeq(bits, 1, next_cursor - cursor)

\* &bits[cursor..next_cursor] (line 98)
carrier_bits(bits, cursor, next_cursor) == SubSeq(bits, cursor + 1, next_cursor)

\* the mutant of save_error: the error of the save is dropped
save_error_ignored(output_path, unwritable) == "none"

\* save_rgba_with_metadata(..)? (line 118): File::create fails on a path that
\* cannot be created
save_error(output_path, unwritable) ==
    IF output_path \in unwritable THEN "save_failed" ELSE "none"

\* the mutant of bits_to_encode: the rest of the stream, whatever the carrier holds
bits_to_encode_rest(image_capacity_bits, total_bits, cursor) == total_bits - cursor

\* std::cmp::min(image_capacity_bits, total_bits - cursor) (line 95)
bits_to_encode(image_capacity_bits, total_bits, cursor) ==
    Min(image_capacity_bits, total_bits - cursor)

\* lines 87-125: one iteration of the carrier loop
EncCarrier ==
    /\ pc = "enc_loop"
    /\ enc.i <= Len(enc.images)
    /\ enc.cursor < Len(enc.bits)
    /\ LET total_bits == Len(enc.bits)
           image_path == enc.images[enc.i].path
           img == enc.images[enc.i].img
           image_capacity_bits == img.w * img.h * 4
           next_cursor == enc.cursor
                            + bits_to_encode(image_capacity_bits, total_bits, enc.cursor)
           set == set_bits_image(img, carrier_bits(enc.bits, enc.cursor, next_cursor))
           output_path == OutputPath(args.output_dir, image_path)
           sequence_info == <<enc.i - 1, Len(enc.images)>>
       IN  IF ~set.ok
           THEN /\ enc' = [enc EXCEPT !.result = set.err]
                /\ pc' = "enc_done"
                /\ UNCHANGED files
           ELSE IF save_error(output_path, args.unwritable) # "none"
           THEN /\ enc' = [enc EXCEPT !.result = save_error(output_path, args.unwritable),
                                      !.images[enc.i].img = set.img,
                                      !.cursor = next_cursor]
                /\ pc' = "enc_done"
                /\ UNCHANGED files
           ELSE /\ files' = [files EXCEPT ![output_path] =
                               write_sequence_info(SavedFile(files, set.img, image_path),
                                                  sequence_info)]
                /\ enc' = [enc EXCEPT !.images[enc.i].img = set.img,
                                      !.cursor = next_cursor,
                                      !.i = enc.i + 1,
                                      !.written = Append(enc.written, output_path)]
                /\ pc' = "enc_loop"
    /\ UNCHANGED <<args, dec, call>>

\* lines 88-90 and 127: the loop ends at the last carrier or once every bit is written
EncReturn ==
    /\ pc = "enc_loop"
    /\ (enc.i > Len(enc.images) \/ enc.cursor >= Len(enc.bits))
    /\ enc' = [enc EXCEPT !.result = "ok"]
    /\ pc' = "enc_done"
    /\ UNCHANGED <<files, args, dec, call>>

(***************************************************************************)
(* decode_from_files (img/codec.rs).                                       *)
(***************************************************************************)
\* the mutant of sort_by_key: the carriers stay in argument order
sort_by_key_unsorted(s) == s

RECURSIVE InsertByKey(_, _)
InsertByKey(sorted, x) ==
    IF sorted = <<>> THEN <<x>>
    ELSE IF x.seq[1] < sorted[1].seq[1] THEN <<x>> \o sorted
    ELSE <<sorted[1]>> \o InsertByKey(Tail(sorted), x)

RECURSIVE SortFrom(_, _)
SortFrom(s, i) == IF i = 0 THEN <<>> ELSE InsertByKey(SortFrom(s, i - 1), s[i])

\* sort_by_key(|(_, seq_info)| seq_info.unwrap().0): a stable sort on the index
sort_by_key(s) == SortFrom(s, Len(s))


\* the mutant of order_paths: the carriers that have metadata are sorted to the
\* front, the others follow
order_paths_partial(paths_with_sequence) ==
    LET HasSeq(x) == x.seq # <<>>
        NoSeq(x) == x.seq = <<>>
    IN  sort_by_key(SelectSeq(paths_with_sequence, HasSeq))
          \o SelectSeq(paths_with_sequence, NoSeq)

\* lines 143-150: sorted only when every carrier has sequence metadata
order_paths(paths_with_sequence) ==
    LET all_have_sequence ==
            \A i \in 1..Len(paths_with_sequence) : paths_with_sequence[i].seq # <<>>
    IN  IF all_have_sequence THEN sort_by_key(paths_with_sequence)
        ELSE paths_with_sequence

\* lines 135-155: the order in which the carriers are read
sorted_paths_of(fs, image_paths) ==
    LET paths_with_sequence ==
            [ i \in 1..Len(image_paths) |->
                [path |-> image_paths[i], seq |-> read_sequence_info(fs, image_paths[i])] ]
        ordered == order_paths(paths_with_sequence)
    IN  [ i \in 1..Len(ordered) |-> ordered[i].path ]

\* header bytes from the 40 header bits (lines 171-175)
header_bytes_of(bits) ==
    [ i \in 1..HeaderLen |-> FoldBits(SubSeq(bits, 8 * (i - 1) + 1, 8 * i), 1) ]

\* message_count as usize * 8 (line 192).  A count of 2^24 bytes or more is
\* kept as 2^30 bits: like the real product it exceeds every channel count of
\* the model, and it stays an integer of the model checker.
body_bit_count(header_bytes) ==
    IF header_bytes[2] > 0 THEN Pow2(30)
    ELSE from_be_bytes(SubSeq(header_bytes, 2, 5)) * 8

OrderingsOf(S) ==
    { p \in [1..Cardinality(S) -> S] : \A i, j \in 1..Cardinality(S) : p[i] = p[j] => i = j }

Range(s) == { s[i] : i \in 1..Len(s) }

\* the carrier lists decode is asked to read: the written files in any order,
\* the written files without the last one, the untouched input carriers,
\* written files together with an input carrier, which has no sequence
\* metadata, or the output path of every input carrier, written or not
DecodeLists ==
    OrderingsOf(Range(enc.written))
      \cup (IF Len(enc.written) > 1
            THEN { SubSeq(enc.written, 1, Len(enc.written) - 1),
                   <<enc.written[2], args.input_images[1], enc.written[1]>> }
            ELSE {})
      \cup (IF Len(enc.written) > 0
            THEN { <<args.input_images[1], enc.written[1]>> } ELSE {})
      \cup { args.input_images }
      \cup { [ i \in 1..Len(args.input_images) |->
                 OutputPath(args.output_dir, args.input_images[i]) ] }

\* lines 130-166: the carriers are ordered and opened, the reader is built
DecStart ==
    /\ pc \in {"enc_done", "corrupted"}
    /\ \E image_paths \in DecodeLists, key \in Keys :
        LET sorted_paths == sorted_paths_of(files, image_paths)
            bad == \E i \in 1..Len(sorted_paths) :
                      \/ check_image_png(sorted_paths[i]) # "ok"
                      \/ ~read_image(files, sorted_paths[i]).ok
        IN  IF image_paths = <<>>
            THEN /\ dec' = [dec EXCEPT !.result = "no_input", !.key = key]
                 /\ pc' = "dec_done"
            ELSE IF bad
            THEN /\ dec' = [dec EXCEPT !.result = "open_failed", !.key = key,
                                       !.image_paths = image_paths,
                                       !.sorted_paths = sorted_paths]
                 /\ pc' = "dec_done"
            ELSE /\ dec' = [dec EXCEPT !.key = key, !.image_paths = image_paths,
                                       !.sorted_paths = sorted_paths,
                                       !.chan = get_bits_reader_images(
                                           [ i \in 1..Len(sorted_paths) |->
                                               read_image(files, sorted_paths[i]).img ]),
                                       !.pos = 0]
                 /\ pc' = "dec_header"
    /\ UNCHANGED <<files, args, enc, call>>

\* the mutant of unsupported_version: no version is rejected
unsupported_version_never(version) == FALSE

\* version != PROTOCOL_VERSION (line 181)
unsupported_version(version) == version # PROTOCOL_VERSION

\* lines 168-189: the 40 header bits are read, the version is checked
DecHeader ==
    /\ pc = "dec_header"
    /\ LET r == read_bits(dec.chan, dec.pos, HeaderLen * 8)
           header_bytes == header_bytes_of(r.bits)
       IN  IF ~r.ok
           THEN /\ dec' = [dec EXCEPT !.result = "insufficient_data", !.pos = r.pos]
                /\ pc' = "dec_done"
           ELSE IF unsupported_version(header_bytes[1])
           THEN /\ dec' = [dec EXCEPT !.result = "unsupported_version", !.pos = r.pos]
                /\ pc' = "dec_done"
           ELSE /\ dec' = [dec EXCEPT !.pos = r.pos,
                                      !.message_count = body_bit_count(header_bytes)]
                /\ pc' = "dec_body"
    /\ UNCHANGED <<files, args, enc, call>>

\* lines 191-201: the body bits are read and regrouped into bytes
DecBody ==
    /\ pc = "dec_body"
    /\ LET r == read_bits(dec.chan, dec.pos, dec.message_count)
       IN  IF ~r.ok
           THEN /\ dec' = [dec EXCEPT !.result = "insufficient_data", !.pos = r.pos]
                /\ pc' = "dec_done"
           ELSE /\ dec' = [dec EXCEPT !.pos = r.pos,
                                      !.encrypted_bytes = bits_to_bytes(r.bits)]
                /\ pc' = "dec_decrypt"
    /\ UNCHANGED <<files, args, enc, call>>

\* the mutant of decrypt_failed: the error of decrypt is dropped and the
\* decode goes on with what decrypt returned
decrypt_failed_ignored(d) == FALSE

\* crypto::decrypt(..)? (line 203): an error of decrypt ends decode_from_files
decrypt_failed(d) == ~d.ok

\* line 203: crypto::decrypt
DecDecrypt ==
    /\ pc = "dec_decrypt"
    /\ LET d == decrypt(dec.encrypted_bytes, dec.key)
       IN  IF decrypt_failed(d)
           THEN /\ dec' = [dec EXCEPT !.result = d.err, !.cipher = d.cipher]
                /\ pc' = "dec_done"
           ELSE /\ dec' = [dec EXCEPT !.message_bytes = d.plaintext, !.cipher = d.cipher]
                /\ pc' = "dec_write"
    /\ UNCHANGED <<files, args, enc, call>>

\* lines 205-215: the directory of the output file is created, the output
\* file is created and written
DecWrite ==
    /\ pc = "dec_write"
    /\ files' = [files EXCEPT ![OutputFile] = [kind |-> "bin", data |-> dec.message_bytes]]
    /\ dec' = [dec EXCEPT !.result = "ok", !.created_dir = TRUE]
    /\ pc' = "dec_done"
    /\ UNCHANGED <<args, enc, call>>

(***************************************************************************)
(* The environment: a written carrier is damaged between encode and        *)
(* decode, the least-significant bit of one of its channels flips.         *)
(***************************************************************************)
CorruptChannels == {1, 35, 38, 41}

Corrupt ==
    /\ pc = "enc_done"
    /\ enc.result = "ok"
    /\ \E c \in CorruptChannels :
        LET p == enc.written[1]
            v == files[p].px[c]
        IN  files' = [files EXCEPT ![p].px[c] = IF v % 2 = 0 THEN v + 1 ELSE v - 1]
    /\ pc' = "corrupted"
    /\ UNCHANGED <<args, enc, dec, call>>

(***************************************************************************)
(* PNG chunk preserver (img/io.rs).  A PNG file is its chunk stream; a     *)
(* chunk is [length, type, data, crc], type and crc being 4 bytes.  A      *)
(* 32-bit CRC register is a sequence of 32 bits, least-significant first.  *)
(***************************************************************************)
\* 0xEDB88320, least-significant bit first
CrcPoly ==
    <<0, 0, 0, 0, 0, 1, 0, 0, 1, 1, 0, 0, 0, 0, 0, 1,
      0, 0, 0, 1, 1, 1, 0, 1, 1, 0, 1, 1, 0, 1, 1, 1>>

Xor(a, b) == (a + b) % 2

\* crc >> 1
Shr(crc) == Tail(crc) \o <<0>>

\* crc ^ 0xEDB88320
XorPoly(crc) == [ j \in 1..32 |-> Xor(crc[j], CrcPoly[j]) ]

\* for _ in 0..8: (crc >> 1) ^ 0xEDB88320 when crc & 1 is set, else crc >> 1
RECURSIVE CrcShifts(_, _)
CrcShifts(crc, n) ==
    IF n = 0 THEN crc
    ELSE IF crc[1] = 1 THEN CrcShifts(XorPoly(Shr(crc)), n - 1)
         ELSE CrcShifts(Shr(crc), n - 1)

\* crc ^= byte as u32, then the 8 shifts
CrcByte(crc, byte) ==
    CrcShifts([ j \in 1..32 |->
                  IF j <= 8 THEN Xor(crc[j], (byte \div Pow2(j - 1)) % 2) ELSE crc[j] ], 8)

RECURSIVE CrcBytes(_, _, _)
CrcBytes(crc, data, i) ==
    IF i > Len(data) THEN crc ELSE CrcBytes(CrcByte(crc, data[i]), data, i + 1)

\* crc32: seed 0xFFFFFFFF, complemented at the end; given as its big-endian bytes
crc32(data) ==
    LET crc == CrcBytes([ j \in 1..32 |-> 1 ], data, 1)
    IN  [ k \in 1..4 |->
            SumSeq([ j \in 1..8 |-> (1 - crc[32 - 8 * k + j]) * Pow2(j - 1) ]) ]

\* the mutant of calculate_crc: the type is left out of the CRC
calculate_crc_data_only(chunk_type, data) == crc32(data)

\* PngChunk::calculate_crc: over the type followed by the data
calculate_crc(chunk_type, data) == crc32(chunk_type \o data)

\* PngChunk::write: length, type, data, CRC
write_chunk(chunk) ==
    [length |-> Len(chunk.data), type |-> chunk.chunk_type, data |-> chunk.data,
     crc |-> calculate_crc(chunk.chunk_type, chunk.data)]

IHDR == <<73, 72, 68, 82>>
IDAT == <<73, 68, 65, 84>>
IEND == <<73, 69, 78, 68>>
PLTE == <<80, 76, 84, 69>>

\* std::str::from_utf8(&chunk_type).unwrap_or(""): a type with a byte above
\* 127 that is no UTF-8 text reads as the empty string
chunk_type_str(chunk_type) ==
    IF \A i \in 1..Len(chunk_type) : chunk_type[i] < 128 THEN chunk_type ELSE <<>>

\* lines 156-195: the chunk loop.  A length field that cannot be read (the
\* file ends there) ends the loop; a chunk cut short after its length field,
\* in its type, data or CRC (torn), is a read error; IEND ends the loop; every
\* chunk that is not IHDR, IDAT, IEND or PLTE is kept
RECURSIVE extract_chunks(_, _, _, _)
extract_chunks(chunks, torn, i, acc) ==
    IF i > Len(chunks)
    THEN IF torn THEN [ok |-> FALSE, metadata_chunks |-> <<>>]
         ELSE [ok |-> TRUE, metadata_chunks |-> acc]
    ELSE IF chunk_type_str(chunks[i].type) \in {IHDR, IDAT, IEND, PLTE}
         THEN IF chunk_type_str(chunks[i].type) = IEND
              THEN [ok |-> TRUE, metadata_chunks |-> acc]
              ELSE extract_chunks(chunks, torn, i + 1, acc)
         ELSE extract_chunks(chunks, torn, i + 1,
                  Append(acc, [chunk_type |-> chunks[i].type, data |-> chunks[i].data]))

\* what the png crate's Encoder writes for an 8-bit RGBA image: IHDR, the
\* image data (standing for its compressed form) in IDAT, IEND
encode_png(img) ==
    LET ihdr == to_be_bytes(img.w) \o to_be_bytes(img.h) \o <<8, 6, 0, 0, 0>>
    IN  << write_chunk([chunk_type |-> IHDR, data |-> ihdr]),
           write_chunk([chunk_type |-> IDAT, data |-> img.px]),
           write_chunk([chunk_type |-> IEND, data |-> <<>>]) >>

\* the mutant of inject_chunks: the kept chunks are appended after IEND
inject_chunks_at_end(temp_buffer, metadata_chunks) ==
    temp_buffer \o [ k \in 1..Len(metadata_chunks) |-> write_chunk(metadata_chunks[k]) ]

\* lines 216-243: the signature and IHDR of the fresh encoding, the kept
\* chunks, the rest of the fresh encoding
inject_chunks(temp_buffer, metadata_chunks) ==
    <<temp_buffer[1]>>
      \o [ k \in 1..Len(metadata_chunks) |-> write_chunk(metadata_chunks[k]) ]
      \o Tail(temp_buffer)

PngFile(chunks, torn) == [kind |-> "stream", png |-> TRUE, chunks |-> chunks, torn |-> torn]
JpegFile == [kind |-> "stream", png |-> FALSE, chunks |-> <<>>, torn |-> FALSE]

SourceChunk(type, data, crc) == [length |-> Len(data), type |-> type, data |-> data, crc |-> crc]

\* the chunks a source PNG may carry besides IHDR, IDAT and IEND: a gAMA chunk,
\* a tEXt chunk with a wrong CRC, a chunk whose type is no text, a palette
SourceChunks ==
    { SourceChunk(<<103, 65, 77, 65>>, <<0, 0, 177, 143>>, <<11, 252, 97, 5>>),
      SourceChunk(<<116, 69, 88, 116>>, <<65, 0, 66>>, <<0, 0, 0, 0>>),
      SourceChunk(<<255, 1, 2, 3>>, <<7>>, <<2, 55, 69, 250>>),
      SourceChunk(PLTE, <<1, 2, 3>>, <<13, 135, 100, 213>>) }

\* the image the source file holds, and the images saved over it: the same
\* image with a changed channel, or a smaller one (after resize_image)
SourceImage == [w |-> 2, h |-> 1, px |-> <<10, 20, 30, 255, 40, 50, 60, 255>>]
SavedImages ==
    { [SourceImage EXCEPT !.px[1] = 11], [w |-> 1, h |-> 1, px |-> <<25, 35, 45, 255>>] }
SavePath == OutputPath("out", InputPath(1))

\* the source of a save: a PNG with chunks before and after its image data,
\* ending in IEND (and perhaps a chunk after it), at the end of the file, or in
\* a chunk cut short; a file that is no PNG; or no file.  The output path is
\* another path or the input path itself; args.source keeps the source as it
\* was before the call
InitSave ==
    \E source \in
         { PngFile(<<encode_png(SourceImage)[1]>> \o pre \o <<encode_png(SourceImage)[2]>>
                     \o post \o ending[1], ending[2]) :
             pre \in SeqsUpTo(SourceChunks, MaxChunks),
             post \in SeqsUpTo({ c \in SourceChunks : c.type[1] = 116 }, 1),
             ending \in { << <<encode_png(SourceImage)[3]>>, FALSE >>,
                          << <<encode_png(SourceImage)[3],
                               SourceChunk(<<116, 73, 77, 69>>, <<1>>, <<0, 0, 0, 0>>)>>, FALSE >>,
                          << <<>>, FALSE >>,
                          << <<>>, TRUE >> } }
           \cup { JpegFile, NoFile },
       img \in SavedImages, output_path \in {SavePath, InputPath(1)} :
        /\ pc = "save_start"
        /\ args = [img |-> img, input_path |-> InputPath(1),
                   output_path |-> output_path, source |-> source]
        /\ files = [ p \in AllPaths |-> IF p = InputPath(1) THEN source ELSE NoFile ]
        /\ enc = EncIdle
        /\ dec = DecIdle
        /\ call = NoCall

\* the mutant of source_at_read: the output file is created before the source
\* is read, so a source at the output path is read as an empty file
source_at_read_created(fs, input_path, output_path) ==
    IF output_path = input_path /\ fs[input_path] # NoFile THEN JpegFile ELSE fs[input_path]

\* File::open(input_path) at lines 133 and 147: the source as it is on disk;
\* the output file is created later, at line 213
source_at_read(fs, input_path, output_path) == fs[input_path]

\* lines 132-195: the source is opened, its signature checked, its chunks read
SaveExtract ==
    /\ pc = "save_start"
    /\ LET source == source_at_read(files, args.input_path, args.output_path)
           extracted == extract_chunks(source.chunks, source.torn, 1, <<>>)
       IN  IF source = NoFile
           THEN /\ call' = [op |-> "save", result |-> "open_failed", metadata_chunks |-> <<>>]
                /\ pc' = "save_done"
           ELSE IF ~source.png
           THEN /\ call' = [op |-> "save", result |-> "none", metadata_chunks |-> <<>>]
                /\ pc' = "save_simple"
           ELSE IF ~extracted.ok
           THEN /\ call' = [op |-> "save", result |-> "read_failed", metadata_chunks |-> <<>>]
                /\ pc' = "save_done"
           ELSE /\ call' = [op |-> "save", result |-> "none",
                            metadata_chunks |-> extracted.metadata_chunks]
                /\ pc' = "save_write"
    /\ UNCHANGED <<files, args, enc, dec>>

\* lines 197-245: the image is encoded into a buffer, the output file is
\* created and written
SaveWrite ==
    /\ pc = "save_write"
    /\ files' = [files EXCEPT ![args.output_path] =
                    PngFile(inject_chunks(encode_png(args.img), call.metadata_chunks), FALSE)]
    /\ call' = [call EXCEPT !.result = "ok"]
    /\ pc' = "save_done"
    /\ UNCHANGED <<args, enc, dec>>

\* save_rgba_simple, lines 249-263
SaveSimple ==
    /\ pc = "save_simple"
    /\ files' = [files EXCEPT ![args.output_path] = PngFile(encode_png(args.img), FALSE)]
    /\ call' = [call EXCEPT !.result = "ok"]
    /\ pc' = "save_done"
    /\ UNCHANGED <<args, enc, dec>>

(***************************************************************************)
(* Resize (img/resize.rs).  The f64 arithmetic is done on exact rationals: *)
(* aspect_ratio is original_width / original_height.                      *)
(***************************************************************************)
\* (a as f64 / b as f64).ceil() as u32
CeilDiv(a, b) == (a + b - 1) \div b

\* (n as f64 / d as f64).sqrt().ceil() as u32: the least k with k * k >= n / d
CeilSqrt(n, d) == CHOOSE k \in 0..n : k * k * d >= n /\ \A j \in 0..(k - 1) : j * j * d < n

\* the mutant of clamp_to_original: the new dimension is not limited
clamp_to_original_none(new, original) == new

\* std::cmp::min(new, original), lines 76-77
clamp_to_original(new, original) == Min(new, original)

\* calculate_optimal_dimensions
calculate_optimal_dimensions(message_bytes, original_width, original_height, min_dimension) ==
    LET total_bytes == message_bytes + 4
        min_pixels_needed == CeilDiv(total_bytes * 8, 4)
        height0 == CeilSqrt(min_pixels_needed * original_height, original_width)
        width0 == CeilDiv(height0 * original_width, original_height)
        effective_min == Min(min_dimension, Min(original_width, original_height))
        too_small == width0 < effective_min \/ height0 < effective_min
        width1 == IF ~too_small THEN width0
                  ELSE IF original_width >= original_height THEN effective_min
                  ELSE CeilDiv(effective_min * original_width, original_height)
        height1 == IF ~too_small THEN height0
                   ELSE IF original_width >= original_height
                   THEN CeilDiv(effective_min * original_height, original_width)
                   ELSE effective_min
        new_width == clamp_to_original(width1, original_width)
        new_height == clamp_to_original(height1, original_height)
        capacity == (new_width * new_height * 4) \div 8
    IN  IF capacity < total_bytes THEN <<original_width, original_height>>
        ELSE <<new_width, new_height>>

\* image::imageops::resize with Lanczos3 (library): an image of the new
\* dimensions; its channel values stand for the resampled ones
imageops_resize(img, new_width, new_height) ==
    [w |-> new_width, h |-> new_height,
     px |-> [ i \in 1..(new_width * new_height * 4) |-> img.px[((i - 1) % Len(img.px)) + 1] ]]

\* resize_image: the dimensions chosen, the image returned, and whether it was resampled
resize_image(img, message_bytes_len, min_size) ==
    LET new == calculate_optimal_dimensions(message_bytes_len, img.w, img.h, min_size)
    IN  IF new[1] < img.w \/ new[2] < img.h
        THEN [dims |-> new, resampled |-> TRUE, img |-> imageops_resize(img, new[1], new[2])]
        ELSE [dims |-> new, resampled |-> FALSE, img |-> img]

(***************************************************************************)
(* encode_from_file (img/codec.rs): one carrier, with or without the       *)
(* automatic resize.                                                       *)
(***************************************************************************)
\* the min_size that encode_from_file passes to resize_image (line 36)
AutoResizeMinSize == 600

\* encode_from_file, lines 24-40: the output name is checked, the image is
\* resized for message_bytes.len() when auto_resize is set, the framed
\* stream is built and embedded; img is the image handed to the save
encode_from_file(img, message_bytes, key, nonce, output_image, auto_resize) ==
    LET resized == IF auto_resize
                   THEN resize_image(img, Len(message_bytes), AutoResizeMinSize).img
                   ELSE img
        bits == get_message_bits(message_bytes, key, nonce)
        set == set_bits_image(resized, bits)
    IN  IF check_image_png(output_image) # "ok"
        THEN [ok |-> FALSE, err |-> check_image_png(output_image), img |-> img]
        ELSE IF ~set.ok THEN [ok |-> FALSE, err |-> set.err, img |-> resized]
        ELSE [ok |-> TRUE, err |-> "none", img |-> set.img]

(***************************************************************************)
(* The carriers of a batch (img/io.rs, img/codec.rs).  A file name is its  *)
(* stem and its extension; the names of a directory sort by stem, then by  *)
(* extension in byte order.                                                *)
(***************************************************************************)
\* the byte order of the extensions: upper case before lower case
ExtRank == [JPG |-> 1, jpeg |-> 2, jpg |-> 3, png |-> 4, txt |-> 5]

RECURSIVE InsertByName(_, _)
InsertByName(sorted, x) ==
    IF sorted = <<>> THEN <<x>>
    ELSE IF x.stem < sorted[1].stem
            \/ (x.stem = sorted[1].stem /\ ExtRank[x.ext] < ExtRank[sorted[1].ext])
    THEN <<x>> \o sorted
    ELSE <<sorted[1]>> \o InsertByName(Tail(sorted), x)

\* image_files.sort() (line 46), on the files pushed in read_dir order
RECURSIVE sort_names(_)
sort_names(entries) ==
    IF entries = {} THEN <<>>
    ELSE LET x == CHOOSE e \in entries : TRUE
         IN  InsertByName(sort_names(entries \ {x}), x)

\* collect_images_from_dir: the files of the directory whose lower-cased
\* extension is png, jpg or jpeg, sorted; none is an error
collect_images_from_dir(entries) ==
    LET image_files == { e \in entries : e.ext \in {"png", "jpg", "jpeg", "JPG"} }
    IN  IF image_files = {} THEN [ok |-> FALSE, image_files |-> <<>>]
        ELSE [ok |-> TRUE, image_files |-> sort_names(image_files)]

\* lines 101-118 of encode_from_files over the carriers of a batch that are
\* written: the path each carrier is saved to
output_paths(output_dir, input_images) ==
    [ i \in 1..Len(input_images) |-> OutputPath(output_dir, input_images[i]) ]

(***************************************************************************)
(* The command line (main.rs).  cli holds which options were given; the    *)
(* outcome of the directory scan and of the encode or decode operation is  *)
(* an input.  A run of main ends with the lines written to stderr and      *)
(* stdout and the exit status of the process.                              *)
(***************************************************************************)
Exit(status, stderr, stdout) == [exit_status |-> status, stderr |-> stderr, stdout |-> stdout]

\* lines 84-97 and 157-170: exactly one of --image, --image-list, --image-dir
image_param_count(cli) ==
    Cardinality({ o \in {"image", "image_list", "image_dir"} : cli[o] })

\* lines 120-147 and 172-193: the operation is run and its result reported.
\* After Err(e) => eprintln!(..) main returns, and the process exits with 0.
run_operation(cli, operation, dir_scan) ==
    IF ~cli.image /\ ~cli.image_list /\ dir_scan # "ok"
    THEN Exit(1, <<"Error reading image directory">>, <<>>)
    ELSE IF operation = "ok"
    THEN Exit(0, <<>>, IF cli.command = "decode" \/ cli.output \/ cli.output_dir
                       THEN <<"done">> ELSE <<>>)
    ELSE Exit(0, <<IF cli.command = "encode" THEN "Error encoding message"
                   ELSE "Error decoding message">>, <<>>)

\* main
main(cli, operation, dir_scan) ==
    IF image_param_count(cli) = 0
    THEN Exit(1, <<"Error: Must specify one of --image, --image-list, or --image-dir">>, <<>>)
    ELSE IF image_param_count(cli) > 1
    THEN Exit(1, <<"Error: Only one of --image, --image-list, or --image-dir can be specified">>, <<>>)
    ELSE IF cli.command = "encode" /\ cli.image /\ ~cli.output
    THEN Exit(1, <<"Error: --output is required when using --image">>, <<>>)
    ELSE IF cli.command = "encode" /\ cli.image /\ cli.output_dir
    THEN Exit(1, <<"Error: --output-dir cannot be used with --image">>, <<>>)
    ELSE IF cli.command = "encode" /\ ~cli.image /\ ~cli.output_dir
    THEN Exit(1, <<"Error: --output-dir is required when using --image-list or --image-dir">>, <<>>)
    ELSE IF cli.command = "encode" /\ ~cli.image /\ cli.output
    THEN Exit(1, <<"Error: --output cannot be used with --image-list or --image-dir">>, <<>>)
    ELSE run_operation(cli, operation, dir_scan)

(***************************************************************************)
(* The unframed single-carrier codec (main.rs): a 4-byte big-endian length *)
(* and the message, in the LSBs of the channels from the first one on.     *)
(* Pixel (x, y), channel c of bit_index = 4 * (y * width + x) + c is       *)
(* element bit_index + 1 of the flattened buffer.                          *)
(***************************************************************************)
\* the mutant of data_to_hide: the length is written little-endian
data_to_hide_le(message_bytes) ==
    LET be == to_be_bytes(Len(message_bytes))
    IN  [ i \in 1..4 |-> be[5 - i] ] \o message_bytes

\* lines 706-708: message_len.to_be_bytes() followed by the message
data_to_hide(message_bytes) == to_be_bytes(Len(message_bytes)) \o message_bytes

\* encode_bytes_v0
encode_bytes_v0(img, message_bytes, build) ==
    LET check == encode_bytes_v0_check(img.w, img.h, Len(message_bytes), build)
        data  == data_to_hide(message_bytes)
    IN  IF check # "ok" THEN [ok |-> FALSE, err |-> check, img |-> img]
        ELSE [ok |-> TRUE, err |-> "none",
              img |-> [img EXCEPT !.px =
                         [ c \in 1..Len(img.px) |->
                             IF c <= 8 * Len(data)
                             THEN ((img.px[c] \div 2) * 2)
                                    + ((data[((c - 1) \div 8) + 1] \div Pow2((c - 1) % 8)) % 2)
                             ELSE img.px[c] ]]]

\* decode_bytes_v0: the length is parsed once 32 bits are read; the message
\* is returned once 32 + 8 * byte_count bits are read; an image that ends
\* before is an error.  A byte_count of 2^24 or more is beyond every image of
\* the model.
decode_bytes_v0(img) ==
    LET bits == [ c \in 1..Len(img.px) |-> img.px[c] % 2 ]
        len_bytes == [ i \in 1..4 |-> FoldBits(SubSeq(bits, 8 * (i - 1) + 1, 8 * i), 1) ]
    IN  IF Len(bits) < 32 \/ len_bytes[1] > 0
        THEN [ok |-> FALSE, message_bytes |-> <<>>]
        ELSE LET byte_count == from_be_bytes(len_bytes)
             IN  IF Len(bits) < 32 + byte_count * 8
                 THEN [ok |-> FALSE, message_bytes |-> <<>>]
                 ELSE [ok |-> TRUE,
                       message_bytes |->
                         [ k \in 1..byte_count |->
                             FoldBits(SubSeq(bits, 32 + 8 * (k - 1) + 1, 32 + 8 * k), 1) ]]

(***************************************************************************)
(* The unframed multi-carrier codec (main.rs): the same 4-byte length and  *)
(* message, spread over a list of images.                                  *)
(***************************************************************************)
\* lines 486-492: (width * height * 4) / 8 per image in u32, summed
RECURSIVE total_capacity(_)
total_capacity(images) ==
    IF images = <<>> THEN 0
    ELSE ((images[1].w * images[1].h) % U32Pixels) \div 2 + total_capacity(Tail(images))

\* lines 517-539: the while loop for one bit.  The bit goes to channel
\* bit_index of the current image when that is below its capacity; otherwise
\* the next image becomes current with bit_index 0; when no image is left the
\* bit is dropped
RECURSIVE place_bit(_, _, _, _)
place_bit(images, current_image_idx, bit_index, bit) ==
    IF current_image_idx > Len(images)
    THEN [images |-> images, current_image_idx |-> current_image_idx, bit_index |-> bit_index]
    ELSE IF bit_index < images[current_image_idx].w * images[current_image_idx].h * 4
    THEN [images |-> [images EXCEPT ![current_image_idx].px[bit_index + 1] =
                        ((@ \div 2) * 2) + bit],
          current_image_idx |-> current_image_idx,
          bit_index |-> bit_index + 1]
    ELSE place_bit(images, current_image_idx + 1, 0, bit)

\* lines 509-541: the bits of data_to_hide, one after the other; once no image
\* is left every further bit is dropped
RECURSIVE place_bits(_, _, _)
place_bits(st, bits, n) ==
    IF n > Len(bits) \/ st.current_image_idx > Len(st.images) THEN st
    ELSE place_bits(place_bit(st.images, st.current_image_idx, st.bit_index, bits[n]),
                    bits, n + 1)

\* encode_from_multiple_files, from the capacity check to the images that are
\* saved (lines 485-567); a PNG save keeps every channel value
encode_from_multiple_files(images, message_bytes) ==
    IF images = <<>> THEN [ok |-> FALSE, err |-> "no_input", images |-> images]
    ELSE IF Len(message_bytes) + 4 > total_capacity(images)
    THEN [ok |-> FALSE, err |-> "too_long", images |-> images]
    ELSE [ok |-> TRUE, err |-> "none",
          images |-> place_bits([images |-> images, current_image_idx |-> 1, bit_index |-> 0],
                                convert_bytes_to_bits(data_to_hide(message_bytes)), 1).images]

\* lines 664-676: for chunk in message_bits.chunks(8): the byte is pushed, then
\* the loop breaks once message_bytes.len() >= byte_count
RECURSIVE collect_message_bytes(_, _, _, _)
collect_message_bytes(message_bits, k, message_bytes, byte_count) ==
    IF 8 * (k - 1) >= Len(message_bits) THEN message_bytes
    ELSE LET chunk == SubSeq(message_bits, 8 * (k - 1) + 1, Min(8 * k, Len(message_bits)))
             pushed == Append(message_bytes, FoldBits(chunk, 1))
         IN  IF Len(pushed) >= byte_count THEN pushed
             ELSE collect_message_bytes(message_bits, k + 1, pushed, byte_count)

\* decode_from_multiple_files, from the bit extraction to the bytes written to
\* the output file (lines 625-688).  A byte_count of 2^24 or more is beyond
\* every image list of the model.
decode_from_multiple_files(images) ==
    LET chan == get_bits_reader_images(images)
        bits == [ c \in 1..Len(chan) |-> chan[c] % 2 ]
        len_bytes == [ i \in 1..4 |-> FoldBits(SubSeq(bits, 8 * (i - 1) + 1, 8 * i), 1) ]
    IN  IF images = <<>> THEN [ok |-> FALSE, err |-> "no_input", message_bytes |-> <<>>]
        ELSE IF Len(bits) < 32 \/ len_bytes[1] > 0
        THEN [ok |-> FALSE, err |-> "not_enough_data", message_bytes |-> <<>>]
        ELSE LET byte_count == from_be_bytes(len_bytes)
             IN  IF Len(bits) < 32 + byte_count * 8
                 THEN [ok |-> FALSE, err |-> "not_enough_data", message_bytes |-> <<>>]
                 ELSE [ok |-> TRUE, err |-> "none",
                       message_bytes |->
                         collect_message_bytes(SubSeq(bits, 33, Len(bits)), 1, <<>>, byte_count)]

(***************************************************************************)
(* Calls of the library functions on their own: pixel access, the crypto   *)
(* layer and the capacity checks, each on inputs drawn from small sets.    *)
(***************************************************************************)
SmallImages ==
    { [w |-> 1, h |-> 1, px |-> <<38, 75, 112, 149>>],
      [w |-> 2, h |-> 1, px |-> <<255, 0, 17, 254, 128, 3, 64, 201>>] }

LibInit(at, a) ==
    /\ pc = at
    /\ args = a
    /\ files = [ p \in AllPaths |-> NoFile ]
    /\ enc = EncIdle
    /\ dec = DecIdle
    /\ call = NoCall

InitSetBits ==
    \E img \in SmallImages, bits \in SeqsUpTo({0, 1}, MaxBits) :
        LibInit("call_set_bits", [img |-> img, bits |-> bits])

InitReadBits ==
    \E img \in SmallImages, pos \in 0..4, length \in 0..MaxBits :
        LibInit("call_read_bits", [img |-> img, pos |-> pos, length |-> length])

InitCrypto ==
    \E plaintext \in SeqsUpTo(PayloadBytes, MaxPayloadLen), key \in Keys, nonce \in Nonces :
        LibInit("call_encrypt", [plaintext |-> plaintext, key |-> key, nonce |-> nonce])

\* the carrier sets of the capacity checks: n carriers of one size, a carrier
\* of 2^30 pixels on its own
CapacityDims == { [w |-> 5, h |-> 5], [w |-> 8192, h |-> 8192], [w |-> 32768, h |-> 32768] }
CapacityBitCounts == {96, 100, 101, 104, 264}
Builds == {"release", "debug"}

InitCapacity ==
    \E d \in CapacityDims, n \in 1..MaxCapCarriers, bit_count \in CapacityBitCounts,
       build \in Builds :
        /\ d.w * d.h >= U32Pixels => n = 1
        /\ LibInit("call_capacity",
                [dims |-> [ i \in 1..n |-> d ], bit_count |-> bit_count, build |-> build])

CallSetBits ==
    /\ pc = "call_set_bits"
    /\ call' = [op |-> "set_bits_image", res |-> set_bits_image(args.img, args.bits)]
    /\ pc' = "lib_done"
    /\ UNCHANGED <<files, args, enc, dec>>

CallReadBits ==
    /\ pc = "call_read_bits"
    /\ call' = [op |-> "read_bits", res |-> read_bits(args.img.px, args.pos, args.length)]
    /\ pc' = "lib_done"
    /\ UNCHANGED <<files, args, enc, dec>>

CallEncrypt ==
    /\ pc = "call_encrypt"
    /\ call' = [op |-> "encrypt", res |-> encrypt(args.plaintext, args.key, args.nonce)]
    /\ pc' = "call_decrypt"
    /\ UNCHANGED <<files, args, enc, dec>>

\* decrypt of the encrypted data, or of a prefix of it, with any key
CallDecrypt ==
    /\ pc = "call_decrypt"
    /\ \E n \in 0..Len(call.res), key \in Keys :
        call' = [op |-> "decrypt", data |-> SubSeq(call.res, 1, n), key |-> key,
                 sealed |-> call.res,
                 res |-> decrypt(SubSeq(call.res, 1, n), key)]
    /\ pc' = "lib_done"
    /\ UNCHANGED <<files, args, enc, dec>>

CallCheckCapacityImage ==
    /\ pc = "call_capacity"
    /\ call' = [op |-> "check_capacity_image",
                res |-> check_capacity_image(args.dims[1].w, args.dims[1].h, args.bit_count)]
    /\ pc' = "lib_done"
    /\ UNCHANGED <<files, args, enc, dec>>

CallCheckCapacityImages ==
    /\ pc = "call_capacity"
    /\ call' = [op |-> "check_capacity_images",
                res |-> check_capacity_images(args.dims, args.bit_count, args.build)]
    /\ pc' = "lib_done"
    /\ UNCHANGED <<files, args, enc, dec>>

\* encode_bytes_v0 on a message of bit_count / 8 - 4 bytes: with its 4-byte
\* length prefix the message needs bit_count bits
CallEncodeBytesV0Check ==
    /\ pc = "call_capacity"
    /\ args.bit_count % 8 = 0
    /\ call' = [op |-> "encode_bytes_v0",
                res |-> encode_bytes_v0_check(args.dims[1].w, args.dims[1].h,
                                              args.bit_count \div 8 - 4, args.build)]
    /\ pc' = "lib_done"
    /\ UNCHANGED <<files, args, enc, dec>>

\* min_size: codec.rs passes 600; smaller minimums bring the rule into reach
\* of small images
MinDimensions == {2, 4, 600}

InitResize ==
    \E w \in 1..MaxDim, h \in 1..MaxDim, message_bytes_len \in 0..MaxMessageLen,
       min_size \in MinDimensions :
        LibInit("call_resize",
                [img |-> [w |-> w, h |-> h, px |-> [ i \in 1..(w * h * 4) |-> (29 * i) % 256 ]],
                 message_bytes_len |-> message_bytes_len, min_size |-> min_size])

CallResizeImage ==
    /\ pc = "call_resize"
    /\ call' = [op |-> "resize_image",
                res |-> resize_image(args.img, args.message_bytes_len, args.min_size)]
    /\ pc' = "lib_done"
    /\ UNCHANGED <<files, args, enc, dec>>

CodecBytes == {0, 1, 6, 128, 255}

InitBitCodec ==
    \E bytes \in SeqsUpTo(CodecBytes, MaxBytes) :
        LibInit("call_to_bits", [bytes |-> bytes])

CallConvertBytesToBits ==
    /\ pc = "call_to_bits"
    /\ call' = [op |-> "convert_bytes_to_bits", res |-> convert_bytes_to_bits(args.bytes)]
    /\ pc' = "call_to_bytes"
    /\ UNCHANGED <<files, args, enc, dec>>

\* the regrouping of decode_from_files (lines 193-200) on the bits just made
CallBitsToBytes ==
    /\ pc = "call_to_bytes"
    /\ call' = [op |-> "bits_to_bytes", bits |-> call.res, res |-> bits_to_bytes(call.res)]
    /\ pc' = "lib_done"
    /\ UNCHANGED <<files, args, enc, dec>>

\* the options given on the command line (decode always has --output), the
\* result of collect_images_from_dir and of the operation
InitCli ==
    \E command \in {"encode", "decode"}, image, image_list, image_dir \in BOOLEAN,
       output, output_dir \in BOOLEAN, operation, dir_scan \in {"ok", "err"} :
        /\ command = "decode" => (output /\ ~output_dir)
        /\ LibInit("call_main",
                   [cli |-> [command |-> command, image |-> image, image_list |-> image_list,
                             image_dir |-> image_dir, output |-> output,
                             output_dir |-> output_dir],
                    operation |-> operation, dir_scan |-> dir_scan])

CallMain ==
    /\ pc = "call_main"
    /\ call' = [op |-> "main", res |-> main(args.cli, args.operation, args.dir_scan)]
    /\ pc' = "lib_done"
    /\ UNCHANGED <<files, args, enc, dec>>

\* images of 4, 32, 40, 48 and 64 channels
V0Dims == { <<1, 1>>, <<4, 2>>, <<2, 5>>, <<3, 4>>, <<4, 4>> }
V0Bytes == {0, 1, 255}

InitV0 ==
    \E d \in V0Dims, message_bytes \in SeqsUpTo(V0Bytes, MaxV0Len) :
        LibInit("call_v0_encode",
                [img |-> [w |-> d[1], h |-> d[2],
                          px |-> [ i \in 1..(d[1] * d[2] * 4) |-> ((53 * i) + 7) % 256 ]],
                 message_bytes |-> message_bytes])

CallEncodeBytesV0 ==
    /\ pc = "call_v0_encode"
    /\ call' = [op |-> "encode_v0",
                encoded |-> encode_bytes_v0(args.img, args.message_bytes, "release")]
    /\ pc' = "call_v0_decode"
    /\ UNCHANGED <<files, args, enc, dec>>

\* decode_bytes_v0 on the image as encode_bytes_v0 left it
CallDecodeBytesV0 ==
    /\ pc = "call_v0_decode"
    /\ call' = [op |-> "decode_v0", encoded |-> call.encoded,
                res |-> decode_bytes_v0(call.encoded.img)]
    /\ pc' = "lib_done"
    /\ UNCHANGED <<files, args, enc, dec>>

\* images of 4, 16, 32 and 36 channels
MultiDims == { <<1, 1>>, <<2, 2>>, <<4, 2>>, <<3, 3>> }

\* carrier c of a list, channel i is (53 * i + 16 * c + 7) mod 256
InitMulti ==
    \E ds \in SeqsUpTo(MultiDims, MaxMultiCarriers) \ { <<>> },
       message_bytes \in SeqsUpTo(V0Bytes, MaxV0Len) :
        LibInit("call_multi_encode",
                [images |-> [ c \in 1..Len(ds) |->
                               [w |-> ds[c][1], h |-> ds[c][2],
                                px |-> [ i \in 1..(ds[c][1] * ds[c][2] * 4) |->
                                           ((53 * i) + (16 * c) + 7) % 256 ]] ],
                 message_bytes |-> message_bytes])

CallEncodeFromMultipleFiles ==
    /\ pc = "call_multi_encode"
    /\ call' = [op |-> "encode_multi",
                encoded |-> encode_from_multiple_files(args.images, args.message_bytes)]
    /\ pc' = "call_multi_decode"
    /\ UNCHANGED <<files, args, enc, dec>>

\* decode_from_multiple_files on the carriers as encode_from_multiple_files
\* wrote them, in the same order
CallDecodeFromMultipleFiles ==
    /\ pc = "call_multi_decode"
    /\ call.encoded.ok
    /\ call' = [op |-> "decode_multi", encoded |-> call.encoded,
                res |-> decode_from_multiple_files(call.encoded.images)]
    /\ pc' = "lib_done"
    /\ UNCHANGED <<files, args, enc, dec>>

\* carriers of 100, 288, 288 and 360 channels; the framed stream of a message
\* of up to 3 bytes has 264 to 288 bits
EncodeFileDims == { <<5, 5>>, <<12, 6>>, <<6, 12>>, <<10, 9>> }

InitEncodeFile ==
    \E d \in EncodeFileDims, message_bytes \in SeqsUpTo(PayloadBytes, MaxFileMessageLen),
       key \in Keys, nonce \in Nonces, ext \in {"png", "jpg"}, auto_resize \in BOOLEAN :
        LibInit("call_encode_file",
                [img |-> [w |-> d[1], h |-> d[2],
                          px |-> [ i \in 1..(d[1] * d[2] * 4) |-> ((7 * i) + 3) % 256 ]],
                 message_bytes |-> message_bytes, key |-> key, nonce |-> nonce,
                 output_image |-> [dir |-> "out", stem |-> 1, ext |-> ext],
                 auto_resize |-> auto_resize])

CallEncodeFromFile ==
    /\ pc = "call_encode_file"
    /\ call' = [op |-> "encode_from_file",
                res |-> encode_from_file(args.img, args.message_bytes, args.key, args.nonce,
                                         args.output_image, args.auto_resize)]
    /\ pc' = "lib_done"
    /\ UNCHANGED <<files, args, enc, dec>>

\* the files a carrier directory may hold
DirEntries ==
    { [dir |-> "in", stem |-> 1, ext |-> "png"], [dir |-> "in", stem |-> 1, ext |-> "jpg"],
      [dir |-> "in", stem |-> 2, ext |-> "png"], [dir |-> "in", stem |-> 2, ext |-> "JPG"],
      [dir |-> "in", stem |-> 3, ext |-> "jpeg"], [dir |-> "in", stem |-> 3, ext |-> "txt"] }

InitBatch ==
    \E entries \in SUBSET DirEntries :
        LibInit("call_collect", [entries |-> entries, output_dir |-> "out"])

CallCollectImagesFromDir ==
    /\ pc = "call_collect"
    /\ call' = [op |-> "collect_images_from_dir", res |-> collect_images_from_dir(args.entries)]
    /\ pc' = "call_output_paths"
    /\ UNCHANGED <<files, args, enc, dec>>

\* encode_from_files on the carriers found, with a message that reaches all
\* of them: the output path of each
CallOutputPaths ==
    /\ pc = "call_output_paths"
    /\ call.res.ok
    /\ call' = [op |-> "output_paths", input_images |-> call.res.image_files,
                res |-> output_paths(args.output_dir, call.res.image_files)]
    /\ pc' = "lib_done"
    /\ UNCHANGED <<files, args, enc, dec>>

Init ==
    \/ InitPipeline
    \/ InitSetBits
    \/ InitReadBits
    \/ InitCrypto
    \/ InitCapacity
    \/ InitSave
    \/ InitResize
    \/ InitBitCodec
    \/ InitCli
    \/ InitV0
    \/ InitMulti
    \/ InitEncodeFile
    \/ InitBatch

Next ==
    \/ EncStart
    \/ EncCarrier
    \/ EncReturn
    \/ Corrupt
    \/ DecStart
    \/ DecHeader
    \/ DecBody
    \/ DecDecrypt
    \/ DecWrite
    \/ CallSetBits
    \/ CallReadBits
    \/ CallEncrypt
    \/ CallDecrypt
    \/ CallCheckCapacityImage
    \/ CallCheckCapacityImages
    \/ CallEncodeBytesV0Check
    \/ SaveExtract
    \/ SaveWrite
    \/ SaveSimple
    \/ CallResizeImage
    \/ CallConvertBytesToBits
    \/ CallBitsToBytes
    \/ CallMain
    \/ CallEncodeBytesV0
    \/ CallDecodeBytesV0
    \/ CallEncodeFromMultipleFiles
    \/ CallDecodeFromMultipleFiles
    \/ CallEncodeFromFile
    \/ CallCollectImagesFromDir
    \/ CallOutputPaths

Spec == Init /\ [][Next]_vars

(***************************************************************************)
(* What the properties speak of.                                           *)
(***************************************************************************)
\* capacity of a carrier in bits: one bit per channel
CapacityBits(f) == f.w * f.h * 4

InputCapacities == [ i \in 1..Len(args.input_images) |-> CapacityBits(files[args.input_images[i]]) ]

\* header, nonce, ciphertext and tag, in bits
FramedBitLength == (HeaderLen + NonceLen + Len(args.message) + TagLen) * 8

\* the written carriers are on disk as encode left them
Uncorrupted ==
    \A i \in 1..Len(enc.written) : files[enc.written[i]].px = enc.images[i].img.px

\* decode was asked to read all written carriers, in some order
ReadsAllWritten ==
    /\ Len(dec.image_paths) = Len(enc.written)
    /\ Range(dec.image_paths) = Range(enc.written)

\* the carrier and the local channel offset of stream bit i (0-based): walk the
\* carriers in order, subtracting each capacity from i until it fits
RECURSIVE Locate(_, _, _)
Locate(i, caps, c) ==
    IF i < caps[c] THEN [carrier |-> c, offset |-> i]
    ELSE Locate(i - caps[c], caps, c + 1)

\* byte k (1-based) of the embedded stream, from the channels' LSBs
EmbeddedByte(chan, k) ==
    SumSeq([ j \in 1..8 |-> (chan[8 * (k - 1) + j] % 2) * Pow2(j - 1) ])

\* the header in the channels declares more body bits than channels remain
DeclaresTooMuch(chan) ==
    \/ EmbeddedByte(chan, 2) > 0
    \/ 8 * (EmbeddedByte(chan, 3) * 65536 + EmbeddedByte(chan, 4) * 256 + EmbeddedByte(chan, 5))
         > Len(chan) - HeaderLen * 8

\* the path of the decoded file no longer holds what it held before the run
OutputWritten == files[OutputFile] # args.output_before

\* C1: a payload encoded into carriers of sufficient total capacity (every
\* output path writable) and decoded
\* from the written carriers in the same order with the same key comes back
\* exactly, the empty payload included.
C1_RoundTrip ==
    ( /\ pc = "dec_done"
      /\ SumSeq(InputCapacities) >= FramedBitLength
      /\ args.unwritable = {}
      /\ Uncorrupted
      /\ dec.image_paths = enc.written
      /\ dec.key = args.key )
    => /\ enc.result = "ok"
       /\ dec.result = "ok"
       /\ files[OutputFile] = [kind |-> "bin", data |-> args.message]

C1_Witness ==
    /\ pc = "dec_done"
    /\ dec.result = "ok"
    /\ Len(enc.written) = 2
    /\ Len(args.message) > 0
    /\ dec.image_paths = enc.written
    /\ dec.key = args.key
    /\ Uncorrupted

\* C2: an encode is accepted if and only if the needed bits do not exceed the
\* capacity of width * height * 4 bits per carrier: for set_bits_image and
\* check_capacity_image on one carrier, for the byte check of encode_bytes_v0,
\* and for the summed capacity of a carrier set in check_capacity_images and
\* encode_from_files; a rejection is the message-too-large error.
C2_CapacityBoundary ==
    /\ (pc = "lib_done" /\ call.op = "set_bits_image")
         => /\ call.res.ok <=> Len(args.bits) <= CapacityBits(args.img)
            /\ ~call.res.ok => call.res.err = "too_long"
    /\ (pc = "lib_done" /\ call.op \in {"check_capacity_image", "encode_bytes_v0"})
         => /\ call.res = "ok" <=>
                 ExceedsPixels(args.bit_count, args.dims[1].w * args.dims[1].h) = FALSE
            /\ call.res \in {"ok", "too_long"}
    /\ (pc = "lib_done" /\ call.op = "check_capacity_images")
         => /\ call.res = "ok" <=> (args.bit_count + 3) \div 4 <= SumPixels(args.dims)
            /\ call.res \in {"ok", "too_long"}
    /\ (pc = "enc_done" /\ args.input_images # <<>> /\ args.unwritable = {})
         => /\ enc.result = "ok" <=> FramedBitLength <= SumSeq(InputCapacities)
            /\ enc.result \in {"ok", "too_long"}

\* C3: a stream longer than the first carrier's capacity that fits the first two
\* is split at the first carrier's capacity; stream bit i is in the LSB of the
\* channel found by walking the carriers in order.
C3_Split ==
    pc = "enc_done" =>
      /\ ( /\ Len(args.input_images) >= 2
           /\ args.unwritable = {}
           /\ FramedBitLength > InputCapacities[1]
           /\ FramedBitLength <= InputCapacities[1] + InputCapacities[2] )
         => (enc.result = "ok" /\ Len(enc.written) = 2)
      /\ enc.result = "ok" =>
           \A i \in 0..(FramedBitLength - 1) :
              LET at == Locate(i, InputCapacities, 1)
                  out == files[OutputPath(args.output_dir, args.input_images[at.carrier])]
              IN  /\ out # NoFile
                  /\ out.px[at.offset + 1] % 2 = enc.bits[i + 1]

C3_Witness ==
    /\ pc = "enc_done"
    /\ enc.result = "ok"
    /\ Len(enc.written) = 2
    /\ FramedBitLength > InputCapacities[1]

\* C4: when every carrier decode is given has sequence metadata, the carriers
\* are read in ascending index order, so the written carriers of one encode
\* decode to the payload in whatever order they are given.
C4_AnyOrder ==
    /\ ( /\ pc \in {"dec_header", "dec_body", "dec_decrypt", "dec_write", "dec_done"}
         /\ \A i \in 1..Len(dec.image_paths) : read_sequence_info(files, dec.image_paths[i]) # <<>> )
       => /\ Range(dec.sorted_paths) = Range(dec.image_paths)
          /\ Len(dec.sorted_paths) = Len(dec.image_paths)
          /\ \A i, j \in 1..Len(dec.sorted_paths) :
                i < j => files[dec.sorted_paths[i]].seq[1] <= files[dec.sorted_paths[j]].seq[1]
    /\ ( /\ pc = "dec_done"
         /\ enc.result = "ok"
         /\ Uncorrupted
         /\ ReadsAllWritten
         /\ dec.key = args.key )
       => /\ dec.sorted_paths = enc.written
          /\ dec.result = "ok"
          /\ files[OutputFile] = [kind |-> "bin", data |-> args.message]

C4_Witness ==
    /\ pc = "dec_done"
    /\ dec.result = "ok"
    /\ ReadsAllWritten
    /\ dec.image_paths # enc.written
    /\ dec.sorted_paths = enc.written

\* C5: after a successful set_bits_image, channel i below the number of bits
\* keeps its 7 high bits and has bit i as its LSB; every other channel is
\* unchanged.
C5_NonDestructive ==
    (call.op = "set_bits_image" /\ call.res.ok) =>
      /\ call.res.img.w = args.img.w
      /\ call.res.img.h = args.img.h
      /\ Len(call.res.img.px) = Len(args.img.px)
      /\ \A i \in 1..Len(args.img.px) :
            IF i <= Len(args.bits)
            THEN /\ call.res.img.px[i] \div 2 = args.img.px[i] \div 2
                 /\ call.res.img.px[i] % 2 = args.bits[i]
            ELSE call.res.img.px[i] = args.img.px[i]

C5_Witness ==
    /\ call.op = "set_bits_image"
    /\ call.res.ok
    /\ Len(args.bits) > 0
    /\ Len(args.bits) < Len(args.img.px)
    /\ call.res.img.px # args.img.px

\* C11: in a successful encode_from_files every input carrier has an output
\* file, the number of output files is the number of input carriers, and a
\* carrier that received no bits is saved with the pixel values of its input.
C11_OnePerInput ==
    (pc = "enc_done" /\ enc.result = "ok") =>
      /\ Len(enc.written) = Len(args.input_images)
      /\ \A i \in 1..Len(args.input_images) :
            LET out == files[OutputPath(args.output_dir, args.input_images[i])]
            IN  /\ out # NoFile
                /\ SumSeq(SubSeq(InputCapacities, 1, i - 1)) >= FramedBitLength
                     => out.px = files[args.input_images[i]].px

\* C12: when a carrier given to decode_from_files has no sequence metadata,
\* the carriers are read in exactly the order given, those with metadata too.
C12_OrderingFallback ==
    ( /\ pc \in {"dec_header", "dec_body", "dec_decrypt", "dec_write", "dec_done"}
      /\ dec.image_paths # <<>>
      /\ \E i \in 1..Len(dec.image_paths) : read_sequence_info(files, dec.image_paths[i]) = <<>> )
    => dec.sorted_paths = dec.image_paths

\* decode was given two written carriers in descending index order and a
\* carrier without metadata between them
C12_Witness ==
    /\ pc = "dec_done"
    /\ Len(dec.image_paths) = 3
    /\ read_sequence_info(files, dec.image_paths[2]) = <<>>
    /\ read_sequence_info(files, dec.image_paths[1]) # <<>>
    /\ read_sequence_info(files, dec.image_paths[3]) # <<>>
    /\ read_sequence_info(files, dec.image_paths[1])[1] > read_sequence_info(files, dec.image_paths[3])[1]
    /\ dec.sorted_paths = dec.image_paths

\* C13: calculate_optimal_dimensions returns the original dimensions or
\* dimensions whose capacity of width * height * 4 bits is at least
\* (payload length + the 5-byte frame header) * 8 bits.
C13_ResizeCapacity ==
    call.op = "resize_image" =>
      \/ call.res.dims = <<args.img.w, args.img.h>>
      \/ call.res.dims[1] * call.res.dims[2] * 4 >= (args.message_bytes_len + HeaderLen) * 8

\* C14: the smaller of the width and height that calculate_optimal_dimensions
\* returns is at least min(min_dimension, min(original width, original height)).
C14_ResizeMinDimension ==
    call.op = "resize_image" =>
      Min(call.res.dims[1], call.res.dims[2])
        >= Min(args.min_size, Min(args.img.w, args.img.h))

\* C15: calculate_optimal_dimensions returns no dimension above the original,
\* and resize_image resamples exactly when a returned dimension is smaller
\* than the original: otherwise the image is returned unchanged.
C15_NeverEnlarges ==
    call.op = "resize_image" =>
      /\ call.res.dims[1] <= args.img.w
      /\ call.res.dims[2] <= args.img.h
      /\ call.res.resampled <=> (call.res.dims[1] < args.img.w \/ call.res.dims[2] < args.img.h)
      /\ ~call.res.resampled => call.res.img = args.img
      /\ call.res.img.w = call.res.dims[1]
      /\ call.res.img.h = call.res.dims[2]

\* an image was resampled to a smaller one, in a call where the minimum
\* dimension rule did not apply
C15_Witness ==
    /\ call.op = "resize_image"
    /\ call.res.resampled
    /\ call.res.dims[1] < args.img.w
    /\ call.res.dims[2] < args.img.h
    /\ args.min_size < Min(call.res.dims[1], call.res.dims[2])

\* the chunks of a stream before its first IEND that are not IHDR, IDAT, IEND
\* or PLTE, in their order
AncillaryUpToIend(chunks) ==
    LET iends == { i \in 1..Len(chunks) : chunks[i].type = IEND }
        last  == IF iends = {} THEN Len(chunks)
                 ELSE (CHOOSE i \in iends : \A j \in iends : i <= j) - 1
        Keep(c) == c.type \notin {IHDR, IDAT, IEND, PLTE}
    IN  SelectSeq(SubSeq(chunks, 1, last), Keep)

\* CRC-32 (ISO 3309, as zlib computes it) of type followed by data, for the
\* ancillary chunks of SourceChunks, keyed by type
ReferenceCrc ==
    ( <<103, 65, 77, 65>> :> <<11, 252, 97, 5>> ) @@
    ( <<116, 69, 88, 116>> :> <<223, 106, 196, 19>> ) @@
    ( <<255, 1, 2, 3>> :> <<2, 55, 69, 250>> )

\* C6: the file written by save_rgba_with_metadata for a source PNG holds
\* IHDR, then exactly the source's chunks up to IEND that are not IHDR, IDAT,
\* IEND or PLTE, with the same type and data in the same order, each with its
\* length field equal to its data length and the CRC-32 of type followed by
\* data, then the first IDAT, then IEND.
C6_MetadataPreserved ==
    ( /\ pc = "save_done"
      /\ call.result = "ok"
      /\ args.source.png )
    => LET kept == AncillaryUpToIend(args.source.chunks)
           out  == files[args.output_path].chunks
           n    == Len(kept)
       IN  /\ Len(out) = n + 3
           /\ out[1].type = IHDR
           /\ \A k \in 1..n :
                /\ out[k + 1].type = kept[k].type
                /\ out[k + 1].data = kept[k].data
                /\ out[k + 1].length = Len(kept[k].data)
                /\ out[k + 1].crc = ReferenceCrc[kept[k].type]
           /\ out[n + 2].type = IDAT
           /\ out[n + 3].type = IEND

\* a source with two different ancillary chunks before its image data, one
\* after it, one of them with a stale CRC, a palette and a chunk after IEND
\* has been saved
C6_Witness ==
    /\ pc = "save_done"
    /\ call.result = "ok"
    /\ args.source.png
    /\ LET src  == args.source.chunks
           kept == AncillaryUpToIend(src)
       IN  /\ Len(kept) >= 2
           /\ kept[1].type # kept[2].type
           /\ \E i \in 1..Len(src) : src[i].type = PLTE
           /\ \E i \in 1..Len(src) : src[i].type = IEND /\ i < Len(src)
           /\ \E k \in 1..Len(kept) : kept[k].crc # files[args.output_path].chunks[k + 1].crc

\* C16: a PNG written by save_rgba_with_metadata from a PNG source is one
\* freshly generated IHDR, then the retained ancillary chunks in their source
\* order, then the freshly generated IDAT, then IEND as the last chunk; no
\* IHDR, PLTE, IDAT or IEND of the source is copied and no chunk that follows
\* IEND in the source is retained.
C16_ChunkOrder ==
    ( /\ pc = "save_done"
      /\ call.result = "ok"
      /\ args.source.png )
    => LET src  == args.source.chunks
           out  == files[args.output_path].chunks
           n    == Len(out)
           Critical == {IHDR, PLTE, IDAT, IEND}
           BeforeIend(i) == \A j \in 1..i : src[j].type # IEND
       IN  /\ n >= 3
           /\ out[1] = encode_png(args.img)[1]
           /\ out[n - 1] = encode_png(args.img)[2]
           /\ out[n] = encode_png(args.img)[3]
           /\ \A k \in 2..(n - 2) : out[k].type \notin Critical
           \* the chunks in between come from before the source's IEND, in source order
           /\ \E at \in [2..(n - 2) -> 1..Len(src)] :
                /\ \A k \in 2..(n - 2) :
                      /\ src[at[k]].type = out[k].type
                      /\ src[at[k]].data = out[k].data
                      /\ BeforeIend(at[k])
                /\ \A k, l \in 2..(n - 2) : k < l => at[k] < at[l]
           \* and every ancillary chunk before the source's IEND is among them
           /\ n - 3 = Cardinality({ i \in 1..Len(src) : BeforeIend(i) /\ src[i].type \notin Critical })

\* a smaller image was saved over a source that has a palette, ancillary
\* chunks on both sides of its image data and a chunk after IEND
C16_Witness ==
    /\ pc = "save_done"
    /\ call.result = "ok"
    /\ args.source.png
    /\ args.img.w < SourceImage.w
    /\ LET src == args.source.chunks
       IN  /\ \E i \in 1..Len(src) : src[i].type = PLTE
           /\ \E i \in 1..Len(src) : src[i].type = IEND /\ i < Len(src)
           /\ \E i, j \in 1..Len(src) :
                 /\ i < j
                 /\ src[i].type = IDAT
                 /\ src[j].type \notin {IHDR, PLTE, IDAT, IEND}
                 /\ \A l \in 1..j : src[l].type # IEND
    /\ Len(files[args.output_path].chunks) > 3

\* C17: convert_bytes_to_bits yields 8 * len(bytes) bits, bit 8k + j being bit
\* j of byte k with j = 0 the least-significant; regrouping every 8 bits, bit
\* j shifted left by j, gives the bytes back.
C17_BitCodecInverse ==
    /\ call.op = "convert_bytes_to_bits" =>
         /\ Len(call.res) = 8 * Len(args.bytes)
         /\ \A k \in 0..(Len(args.bytes) - 1), j \in 0..7 :
               call.res[8 * k + j + 1] = (args.bytes[k + 1] \div Pow2(j)) % 2
    /\ call.op = "bits_to_bytes" =>
         /\ Len(call.bits) = 8 * Len(args.bytes)
         /\ call.res = args.bytes

\* two different bytes, neither a bit palindrome, went through both conversions
C17_Witness ==
    /\ call.op = "bits_to_bytes"
    /\ Len(args.bytes) = 2
    /\ args.bytes[1] = 1
    /\ args.bytes[2] = 6
    /\ call.res = args.bytes

\* the carriers the stream reaches: carrier i is needed when the carriers
\* before it do not hold the whole stream
Needed(i) == SumSeq(SubSeq(InputCapacities, 1, i - 1)) < FramedBitLength

\* C18: encode_from_files writes the carriers in input order; when the write
\* of carrier k fails the call returns that error at once, no carrier after k
\* is written, and the outputs of the carriers before k stay on disk as
\* encoded.
C18_BatchAbort ==
    /\ pc \in {"enc_loop", "enc_done"} =>
         /\ enc.written = [ i \in 1..Len(enc.written) |->
                              OutputPath(args.output_dir, args.input_images[i]) ]
         /\ \A i \in 1..Len(args.input_images) :
               files[OutputPath(args.output_dir, args.input_images[i])] # NoFile
                 <=> i <= Len(enc.written)
    /\ ( /\ pc = "enc_done"
         /\ SumSeq(InputCapacities) >= FramedBitLength
         /\ \E k \in 1..Len(args.input_images) :
               Needed(k) /\ OutputPath(args.output_dir, args.input_images[k]) \in args.unwritable )
       => /\ enc.result = "save_failed"
          /\ OutputPath(args.output_dir, args.input_images[Len(enc.written) + 1]) \in args.unwritable
          /\ \A i \in 1..Len(enc.written) :
                LET out == files[enc.written[i]]
                    from == SumSeq(SubSeq(InputCapacities, 1, i - 1))
                IN  /\ Len(out.px) = InputCapacities[i]
                    /\ \A c \in 1..Len(out.px) : out.px[c] % 2 = enc.bits[from + c]

\* the write of the second carrier failed after the first was written
C18_Witness ==
    /\ pc = "enc_done"
    /\ enc.result = "save_failed"
    /\ Len(enc.written) = 1
    /\ Len(args.input_images) = 2
    /\ files[enc.written[1]] # NoFile
    /\ files[OutputPath(args.output_dir, args.input_images[2])] = NoFile

\* the options pass the validation of main
ArgsValid(cli) ==
    /\ Cardinality({ o \in {"image", "image_list", "image_dir"} : cli[o] }) = 1
    /\ cli.command = "encode" =>
         IF cli.image THEN cli.output /\ ~cli.output_dir
         ELSE cli.output_dir /\ ~cli.output

\* the directory is scanned only for --image-dir
ScanFails == args.cli.image_dir /\ args.dir_scan # "ok"

\* C19: every error of an encode or decode operation, like every error of the
\* argument validation, ends main with one line on stderr and a non-zero exit
\* status.
C19_CliErrorExit ==
    call.op = "main" =>
      IF ~ArgsValid(args.cli) \/ ScanFails \/ args.operation # "ok"
      THEN /\ Len(call.res.stderr) = 1
           /\ call.res.exit_status # 0
      ELSE /\ call.res.stderr = <<>>
           /\ call.res.exit_status = 0

\* C20: for an image and a message with len(message) + 4 <=
\* floor(width * height * 4 / 8), encode_bytes_v0 succeeds and
\* decode_bytes_v0 of the encoded image returns exactly the message, the
\* empty message included.
C20_V0RoundTrip ==
    ( /\ call.op \in {"encode_v0", "decode_v0"}
      /\ Len(args.message_bytes) + 4 <= (args.img.w * args.img.h * 4) \div 8 )
    => /\ call.encoded.ok
       /\ call.op = "decode_v0" =>
            /\ call.res.ok
            /\ call.res.message_bytes = args.message_bytes

\* a message that fills the image to its last byte came back
C20_Witness ==
    /\ call.op = "decode_v0"
    /\ call.encoded.ok
    /\ Len(args.message_bytes) > 0
    /\ Len(args.message_bytes) + 4 = (args.img.w * args.img.h * 4) \div 8
    /\ call.res.message_bytes = args.message_bytes

\* C21: for a non-empty list of carriers and a payload that passes the
\* capacity check of encode_from_multiple_files, the empty payload included,
\* decode_from_multiple_files of the written carriers in the same order
\* returns exactly the payload, with exactly len(payload) bytes.
C21_MultiRoundTrip ==
    call.op = "decode_multi" =>
      /\ call.res.ok
      /\ Len(call.res.message_bytes) = Len(args.message_bytes)
      /\ call.res.message_bytes = args.message_bytes

\* C22: with auto_resize, encode_from_file succeeds whenever the framed and
\* encrypted payload (5-byte header, 12-byte nonce, ciphertext, 16-byte tag)
\* fits the original carrier: the resize never turns an input that encodes
\* without auto_resize into a message-too-large failure.
C22_AutoResizeEncodable ==
    ( /\ call.op = "encode_from_file"
      /\ args.auto_resize
      /\ check_image_png(args.output_image) = "ok"
      /\ (HeaderLen + NonceLen + Len(args.message_bytes) + TagLen) * 8 <= CapacityBits(args.img) )
    => call.res.ok

\* C23: when the framed stream exceeds the total capacity of the carriers,
\* encode_from_files fails with the message-too-large error before a pixel of
\* a carrier is modified and before an output file is written; a
\* set_bits_image call that fails the capacity check leaves every channel of
\* the image unchanged.
C23_UnchangedOnCapacityError ==
    /\ ( /\ pc \in {"enc_loop", "enc_done"}
         /\ args.input_images # <<>>
         /\ FramedBitLength > SumSeq(InputCapacities) )
       => /\ pc = "enc_done"
          /\ enc.result = "too_long"
          /\ enc.written = <<>>
          /\ \A i \in 1..Len(args.input_images) :
                /\ files[OutputPath(args.output_dir, args.input_images[i])] = NoFile
                /\ enc.images[i].img.px = files[args.input_images[i]].px
    /\ (call.op = "set_bits_image" /\ Len(args.bits) > CapacityBits(args.img))
       => /\ ~call.res.ok
          /\ call.res.img = args.img

\* an encode over two carriers was rejected by the capacity check
C23_Witness ==
    /\ pc = "enc_done"
    /\ enc.result = "too_long"
    /\ Len(args.input_images) = 2
    /\ FramedBitLength > SumSeq(InputCapacities)

\* C24: decode_from_files creates the output directory and creates or writes
\* the output file only after header parsing, body reading and decryption
\* have all succeeded; on every failure (unsupported version, insufficient
\* data, body too short, authentication failure, unreadable carrier) the
\* output file is neither created nor modified.
C24_WriteOnlyOnSuccess ==
    pc \in {"dec_header", "dec_body", "dec_decrypt", "dec_write", "dec_done"} =>
      /\ (pc # "dec_done" \/ dec.result # "ok")
           => /\ files[OutputFile] = args.output_before
              /\ ~dec.created_dir
      /\ (files[OutputFile] # args.output_before \/ dec.created_dir)
           => /\ dec.result = "ok"
              /\ Len(dec.chan) >= HeaderLen * 8
              /\ EmbeddedByte(dec.chan, 1) = PROTOCOL_VERSION
              /\ ~DeclaresTooMuch(dec.chan)
              /\ decrypt(dec.encrypted_bytes, dec.key).ok
              /\ files[OutputFile] =
                    [kind |-> "bin", data |-> decrypt(dec.encrypted_bytes, dec.key).plaintext]

\* a decode with the wrong key failed and left the file of an earlier run as
\* it was
C24_Witness ==
    /\ pc = "dec_done"
    /\ dec.result = "decryption_failed"
    /\ args.output_before # NoFile
    /\ files[OutputFile] = args.output_before

\* what the output path of a save held before the call
SaveOutputBefore == IF args.output_path = args.input_path THEN args.source ELSE NoFile

\* type and data of a sequence of chunks
TypeAndData(chunks) ==
    [ k \in 1..Len(chunks) |-> [chunk_type |-> chunks[k].type, data |-> chunks[k].data] ]

C26_DistinctOutputs ==
    call.op = "output_paths" =>
      /\ Len(call.res) = Len(call.input_images)
      /\ \A i \in 1..Len(call.res) :
            /\ call.res[i].dir = args.output_dir
            /\ call.res[i].stem = call.input_images[i].stem
            /\ call.res[i].ext = IF call.input_images[i].ext \in {"jpg", "jpeg", "JPG"}
                                 THEN "png" ELSE call.input_images[i].ext
      /\ \A i, j \in 1..Len(call.res) :
            call.input_images[i] # call.input_images[j] => call.res[i] # call.res[j]

\* the stream bits a carrier takes: what is left of the stream after the
\* carriers before it, at most its capacity
Taken(k) ==
    LET before == SumSeq(SubSeq(InputCapacities, 1, k - 1))
    IN  IF before >= Len(enc.bits) THEN 0
        ELSE Min(InputCapacities[k], Len(enc.bits) - before)

\* the cursor stays within the stream, and a run whose capacity check passes
\* ends with the cursor at the end of the stream, every stream bit in the
\* channel of its carrier and every other channel as in the input
CursorInvariant ==
    /\ pc \in {"enc_loop", "enc_done"} => (0 <= enc.cursor /\ enc.cursor <= Len(enc.bits))
    /\ ( /\ pc = "enc_done"
         /\ args.input_images # <<>>
         /\ args.unwritable = {}
         /\ FramedBitLength <= SumSeq(InputCapacities) )
       => /\ enc.result = "ok"
          /\ enc.cursor = Len(enc.bits)
          /\ SumSeq([ k \in 1..Len(args.input_images) |-> Taken(k) ]) = Len(enc.bits)
          /\ \A k \in 1..Len(args.input_images) :
                LET from == SumSeq(SubSeq(InputCapacities, 1, k - 1))
                    px == enc.images[k].img.px
                IN  \A c \in 1..Len(px) :
                       IF c <= Taken(k)
                       THEN px[c] % 2 = enc.bits[from + c]
                       ELSE px[c] = files[args.input_images[k]].px[c]

\* a step of the carrier loop: the cursor does not decrease, and a step that
\* handles carrier k advances it by min(capacity(k), total_bits - cursor)
CursorStep ==
    pc = "enc_loop" =>
      /\ enc'.cursor >= enc.cursor
      /\ IF enc'.i # enc.i \/ enc'.result = "save_failed"
         THEN enc'.cursor
                = enc.cursor + Min(InputCapacities[enc.i], Len(enc.bits) - enc.cursor)
         ELSE enc'.cursor = enc.cursor

\* C27: in the carrier loop of encode_from_files, once the capacity check has
\* passed, the cursor never decreases, stays between 0 and total_bits,
\* advances at carrier k by min(capacity(k), total_bits - cursor) and equals
\* total_bits when the loop ends: every bit of the framed stream is written
\* to exactly one channel, none is dropped or written twice.
C27_CursorInvariant == []CursorInvariant /\ [][CursorStep]_vars

\* a loop over two carriers has ended with the cursor at the end of the
\* stream, the second carrier holding the rest of the stream in a part of its
\* channels
C27_Witness ==
    /\ pc = "enc_done"
    /\ enc.result = "ok"
    /\ enc.cursor = Len(enc.bits)
    /\ Len(args.input_images) = 2
    /\ Taken(1) = InputCapacities[1]
    /\ 0 < Taken(2)
    /\ Taken(2) < InputCapacities[2]

\* C28: check_capacity_images accepts if and only if the number of bits is at
\* most the mathematical sum of width * height * 4 over the carriers (the
\* 32-bit products and their 32-bit sum neither wrap nor abort), and for a
\* set of one carrier it gives the verdict of check_capacity_image.
C28_ExactCapacitySum ==
    (pc = "lib_done" /\ call.op = "check_capacity_images") =>
      /\ call.res \in {"ok", "too_long"}
      /\ call.res = "ok" <=> ExceedsPixels(args.bit_count, SumPixels(args.dims)) = FALSE
      /\ Len(args.dims) = 1 =>
            call.res = check_capacity_image(args.dims[1].w, args.dims[1].h, args.bit_count)

\* C7: data encrypted with one key never decrypts with a different key: decrypt
\* fails with the decryption error and returns no payload.
C7_WrongKey ==
    /\ (call.op = "decrypt" /\ call.data = call.sealed /\ call.key # args.key)
       => /\ ~call.res.ok
          /\ call.res.err = "decryption_failed"
          /\ call.res.plaintext = <<>>
    /\ ( /\ pc = "dec_done"
         /\ enc.result = "ok"
         /\ Uncorrupted
         /\ ReadsAllWritten
         /\ dec.key # args.key )
       => /\ dec.result = "decryption_failed"
          /\ ~OutputWritten

C7_Witness ==
    /\ call.op = "decrypt"
    /\ call.data = call.sealed
    /\ call.key # args.key
    /\ Len(args.plaintext) > 0

\* C8: decode reads exactly 40 bits as the header; a version byte other than
\* PROTOCOL_VERSION ends it with the unsupported-version error before a body bit
\* is read, before decryption, and with no output file.
C8_VersionRejected ==
    /\ pc = "dec_body" => dec.pos = 40
    /\ dec.result = "unsupported_version"
       => /\ pc = "dec_done"
          /\ dec.pos = 40
          /\ dec.encrypted_bytes = <<>>
          /\ ~dec.cipher
          /\ ~OutputWritten
    /\ ( /\ pc \in {"dec_body", "dec_decrypt", "dec_write", "dec_done"}
         /\ Len(dec.chan) >= 40
         /\ EmbeddedByte(dec.chan, 1) # PROTOCOL_VERSION )
       => dec.result = "unsupported_version"

C8_Witness ==
    /\ pc = "dec_done"
    /\ dec.result = "unsupported_version"
    /\ enc.result = "ok"

\* C9: read_bits returns the LSBs of the next `length` channels in order and
\* advances the reader by exactly `length`, and fails when fewer remain; a
\* decode whose header declares more body bits than channels remain after the
\* header fails with insufficient data and returns no payload.
C9_Truncation ==
    /\ call.op = "read_bits" =>
         IF args.length <= Len(args.img.px) - args.pos
         THEN /\ call.res.ok
              /\ call.res.pos = args.pos + args.length
              /\ Len(call.res.bits) = args.length
              /\ \A i \in 1..args.length : call.res.bits[i] = args.img.px[args.pos + i] % 2
         ELSE ~call.res.ok
    /\ pc \in {"dec_decrypt", "dec_write"} =>
         /\ dec.pos = 40 + 8 * Len(dec.encrypted_bytes)
         /\ ~DeclaresTooMuch(dec.chan)
         /\ \A k \in 1..Len(dec.encrypted_bytes) :
               dec.encrypted_bytes[k] = EmbeddedByte(dec.chan, HeaderLen + k)
    /\ ( /\ pc = "dec_done"
         /\ Len(dec.chan) >= 40
         /\ EmbeddedByte(dec.chan, 1) = PROTOCOL_VERSION
         /\ DeclaresTooMuch(dec.chan) )
       => /\ dec.result = "insufficient_data"
          /\ ~OutputWritten

C9_Witness ==
    /\ pc = "dec_done"
    /\ dec.result = "insufficient_data"
    /\ dec.pos > 40
    /\ DeclaresTooMuch(dec.chan)

\* C10: decrypt of fewer than 28 bytes (12-byte nonce + 16-byte tag) fails, and
\* fails before the cipher is invoked.
C10_ShortBody ==
    /\ (call.op = "decrypt" /\ Len(call.data) < 28)
       => /\ ~call.res.ok
          /\ call.res.err = "too_short"
          /\ ~call.res.cipher
    /\ (pc = "dec_done" /\ dec.result = "too_short")
       => /\ Len(dec.encrypted_bytes) < 28
          /\ ~dec.cipher
          /\ ~OutputWritten
    /\ pc = "dec_write" => Len(dec.encrypted_bytes) >= 28

C10_Witness ==
    /\ call.op = "decrypt"
    /\ Len(call.data) = 27
    /\ ~call.res.ok

====
